---- MODULE Spec2Model ----
(***************************************************************************)
(* NetGuard: the flow aggregator of virtual_soc/extractor.py.              *)
(*                                                                         *)
(* Time is counted in whole seconds; the source multiplies differences by  *)
(* 1_000_000 to obtain microseconds and so does the model.  A Python value *)
(* that may be None is a sequence: <<>> is None, <<v>> is the value v.     *)
(* A Python float division is kept exact as a pair <<numerator,            *)
(* denominator>>; dividing by zero yields the pair ZeroDivisionError.      *)
(***************************************************************************)
EXTENDS Integers, Sequences, FiniteSets, TLC

\* ------------------------------------------------------------------ bounds
\* Packets the ingestion thread receives in one run of Spec.
MaxPkts == 4
\* Last second of the wall clock in Spec.
MaxTime == 3
\* Packets added to the one record of SpecFlow.
MaxLen == 3
\* SpecEngine: the requests served.
MaxServed == 2
\* SpecRing: the requests served, a few more than the deque holds.
MaxRing == 102
\* SpecLive: the packets captured
MaxLivePkts == 2
\* ids_demo: the POST /api/predict requests begun
MaxCalls == 2
\* ids_demo: the POST /api/reset requests
MaxResets == 1

\* ------------------------------------------------- constants of the source
FLOW_TIMEOUT == 2
MIN_PACKETS == 2
\* The sweeper's time.sleep(1).
SWEEP_INTERVAL == 1
\* The idle threshold of add_packet, in microseconds.
IDLE_THRESHOLD == 1000000
\* Microseconds per second.
USEC == 1000000

\* ----------------------------------------------------------------- values
None == <<>>
IsNone(x) == x = <<>>
Some(v) == <<v>>
Val(x) == x[1]

\* An exact value is a pair <<numerator, denominator>>; the pair <<0, 0>> stands
\* for the ZeroDivisionError Python raises.
ZeroDivisionError == <<0, 0>>
Rat(n) == <<n, 1>>
\* Python's a / b on exact values.
PyDiv(a, b) ==
    IF a[2] = 0 \/ b[2] = 0 \/ b[1] = 0 THEN ZeroDivisionError
    ELSE <<a[1] * b[2], a[2] * b[1]>>

RECURSIVE SumSeq(_)
SumSeq(s) == IF s = <<>> THEN 0 ELSE s[1] + SumSeq(Tail(s))

RECURSIVE MaxSeq(_)
MaxSeq(s) == IF Len(s) = 1 THEN s[1]
             ELSE LET m == MaxSeq(Tail(s)) IN IF s[1] >= m THEN s[1] ELSE m

RECURSIVE MinSeq(_)
MinSeq(s) == IF Len(s) = 1 THEN s[1]
             ELSE LET m == MinSeq(Tail(s)) IN IF s[1] <= m THEN s[1] ELSE m

\* CICFlow._safe with max, min and np.mean (the default is 0).
SafeMax(arr) == IF Len(arr) > 0 THEN MaxSeq(arr) ELSE 0
SafeMin(arr) == IF Len(arr) > 0 THEN MinSeq(arr) ELSE 0
SafeMean(arr) == IF Len(arr) > 0 THEN PyDiv(Rat(SumSeq(arr)), Rat(Len(arr))) ELSE Rat(0)

\* ---------------------------------------------------------------- packets
\* A captured packet: the IP and transport fields packet_handler reads.
\* flags is the set of letters of str(tcp.flags); dataofs 0 stands for a falsy dataofs.
Packet(src_ip, src_port, dst_ip, dst_port, proto, flags, len, window, dataofs) ==
    [src_ip |-> src_ip, src_port |-> src_port, dst_ip |-> dst_ip,
     dst_port |-> dst_port, proto |-> proto, flags |-> flags, len |-> len,
     window |-> window, dataofs |-> dataofs]

\* ---------------------------------------------------------------- CICFlow
\* CICFlow.__init__; t1 and t2 are its two readings of time.time().
CICFlow(src_ip, dst_ip, src_port, dst_port, protocol, t1, t2) ==
    [src_ip |-> src_ip, dst_ip |-> dst_ip, src_port |-> src_port,
     dst_port |-> dst_port, protocol |-> protocol,
     start_time |-> t1, last_seen |-> t2,
     fwd_packets |-> 0, bwd_packets |-> 0,
     fwd_bytes |-> 0, bwd_bytes |-> 0,
     fwd_pkt_lengths |-> <<>>, bwd_pkt_lengths |-> <<>>, all_pkt_lengths |-> <<>>,
     flow_iat |-> <<>>, fwd_iat |-> <<>>, bwd_iat |-> <<>>,
     last_fwd_time |-> None, last_bwd_time |-> None, last_pkt_time |-> None,
     fin_count |-> 0, syn_count |-> 0, rst_count |-> 0, psh_count |-> 0,
     ack_count |-> 0, urg_count |-> 0, cwe_count |-> 0, ece_count |-> 0,
     fwd_psh_count |-> 0, fwd_urg_count |-> 0,
     init_win_fwd |-> -1, init_win_bwd |-> -1,
     fwd_header_len |-> 0, bwd_header_len |-> 0,
     active_times |-> <<>>, idle_times |-> <<>>, current_active_start |-> None,
     fwd_data_pkts |-> 0, min_seg_size_fwd |-> 0]

\* add_packet, line 91: self.last_seen = time.time().
Touch(f, now) == [f EXCEPT !.last_seen = now]

\* Mutant: an active segment closed at the previous packet, without the gap.
AddTiming_gapless(f, current_time) ==
    IF ~IsNone(f.last_pkt_time)
    THEN LET iat == (current_time - Val(f.last_pkt_time)) * USEC
             g == [f EXCEPT !.flow_iat = Append(@, iat)]
         IN  IF iat > IDLE_THRESHOLD
             THEN [g EXCEPT
                     !.active_times =
                         Append(@, (Val(f.last_pkt_time) - Val(f.current_active_start)) * USEC),
                     !.idle_times = Append(@, iat),
                     !.current_active_start = Some(current_time),
                     !.last_pkt_time = Some(current_time)]
             ELSE [g EXCEPT !.last_pkt_time = Some(current_time)]
    ELSE [f EXCEPT !.current_active_start = Some(current_time),
                   !.last_pkt_time = Some(current_time)]

\* The segmentation with a gap of exactly the threshold counted as idle.
AddTiming_atleast(f, current_time) ==
    IF ~IsNone(f.last_pkt_time)
    THEN LET iat == (current_time - Val(f.last_pkt_time)) * USEC
             g == [f EXCEPT !.flow_iat = Append(@, iat)]
         IN  IF iat >= IDLE_THRESHOLD
             THEN [g EXCEPT
                     !.active_times =
                         IF ~IsNone(f.current_active_start)
                         THEN Append(@, (current_time - Val(f.current_active_start)) * USEC)
                         ELSE @,
                     !.idle_times = Append(@, iat),
                     !.current_active_start = Some(current_time),
                     !.last_pkt_time = Some(current_time)]
             ELSE [g EXCEPT
                     !.current_active_start =
                         IF IsNone(f.current_active_start) THEN f.last_pkt_time ELSE @,
                     !.last_pkt_time = Some(current_time)]
    ELSE [f EXCEPT !.current_active_start = Some(current_time),
                   !.last_pkt_time = Some(current_time)]

\* The inter-arrival block with a first packet that opens no active segment.
AddTiming_lazystart(f, current_time) ==
    IF ~IsNone(f.last_pkt_time)
    THEN LET iat == (current_time - Val(f.last_pkt_time)) * USEC
             g == [f EXCEPT !.flow_iat = Append(@, iat)]
         IN  IF iat > IDLE_THRESHOLD
             THEN [g EXCEPT
                     !.active_times =
                         IF ~IsNone(f.current_active_start)
                         THEN Append(@, (current_time - Val(f.current_active_start)) * USEC)
                         ELSE @,
                     !.idle_times = Append(@, iat),
                     !.current_active_start = Some(current_time),
                     !.last_pkt_time = Some(current_time)]
             ELSE [g EXCEPT
                     !.current_active_start =
                         IF IsNone(f.current_active_start) THEN f.last_pkt_time ELSE @,
                     !.last_pkt_time = Some(current_time)]
    ELSE [f EXCEPT !.last_pkt_time = Some(current_time)]

\* add_packet, lines 93-109: flow IAT and the active/idle segmentation.
AddTiming(f, current_time) ==
    IF ~IsNone(f.last_pkt_time)
    THEN LET iat == (current_time - Val(f.last_pkt_time)) * USEC
             g == [f EXCEPT !.flow_iat = Append(@, iat)]
         IN  IF iat > IDLE_THRESHOLD
             THEN [g EXCEPT
                     !.active_times =
                         IF ~IsNone(f.current_active_start)
                         THEN Append(@, (current_time - Val(f.current_active_start)) * USEC)
                         ELSE @,
                     !.idle_times = Append(@, iat),
                     !.current_active_start = Some(current_time),
                     !.last_pkt_time = Some(current_time)]
             ELSE [g EXCEPT
                     !.current_active_start =
                         IF IsNone(f.current_active_start) THEN f.last_pkt_time ELSE @,
                     !.last_pkt_time = Some(current_time)]
    ELSE [f EXCEPT !.current_active_start = Some(current_time),
                   !.last_pkt_time = Some(current_time)]

\* add_packet, lines 110-132: lengths, per-direction counters and IATs.
AddCounters(f, pkt_len, direction, current_time) ==
    LET g == [f EXCEPT !.all_pkt_lengths = Append(@, pkt_len)]
    IN  IF direction = "fwd"
        THEN [g EXCEPT
                !.fwd_packets = @ + 1,
                !.fwd_bytes = @ + pkt_len,
                !.fwd_pkt_lengths = Append(@, pkt_len),
                !.fwd_iat = IF ~IsNone(f.last_fwd_time)
                            THEN Append(@, (current_time - Val(f.last_fwd_time)) * USEC)
                            ELSE @,
                !.last_fwd_time = Some(current_time),
                !.fwd_data_pkts = IF pkt_len > 0 THEN @ + 1 ELSE @,
                !.min_seg_size_fwd =
                    IF pkt_len > 0 /\ (f.min_seg_size_fwd = 0 \/ pkt_len < f.min_seg_size_fwd)
                    THEN pkt_len ELSE @]
        ELSE [g EXCEPT
                !.bwd_packets = @ + 1,
                !.bwd_bytes = @ + pkt_len,
                !.bwd_pkt_lengths = Append(@, pkt_len),
                !.bwd_iat = IF ~IsNone(f.last_bwd_time)
                            THEN Append(@, (current_time - Val(f.last_bwd_time)) * USEC)
                            ELSE @,
                !.last_bwd_time = Some(current_time)]

Bump(cond, n) == IF cond THEN n + 1 ELSE n

\* The TCP block with the window of every packet recorded, not only the first.
AddTcp_lastwindow(f, packet, direction) ==
    IF packet.proto = "TCP"
    THEN LET flags == packet.flags
             header_len == IF packet.dataofs # 0 THEN packet.dataofs * 4 ELSE 20
         IN  [f EXCEPT
                !.fin_count = Bump("F" \in flags, @),
                !.syn_count = Bump("S" \in flags, @),
                !.rst_count = Bump("R" \in flags, @),
                !.psh_count = Bump("P" \in flags, @),
                !.fwd_psh_count = Bump("P" \in flags /\ direction = "fwd", @),
                !.ack_count = Bump("A" \in flags, @),
                !.urg_count = Bump("U" \in flags, @),
                !.fwd_urg_count = Bump("U" \in flags /\ direction = "fwd", @),
                !.cwe_count = Bump("C" \in flags, @),
                !.ece_count = Bump("E" \in flags, @),
                !.init_win_fwd = IF direction = "fwd" THEN packet.window ELSE @,
                !.init_win_bwd = IF direction = "bwd" THEN packet.window ELSE @,
                !.fwd_header_len = IF direction = "fwd" THEN @ + header_len ELSE @,
                !.bwd_header_len = IF direction = "fwd" THEN @ ELSE @ + header_len]
    ELSE f

\* add_packet, lines 134-161: TCP flags, initial windows, header lengths.
AddTcp(f, packet, direction) ==
    IF packet.proto = "TCP"
    THEN LET flags == packet.flags
             header_len == IF packet.dataofs # 0 THEN packet.dataofs * 4 ELSE 20
         IN  [f EXCEPT
                !.fin_count = Bump("F" \in flags, @),
                !.syn_count = Bump("S" \in flags, @),
                !.rst_count = Bump("R" \in flags, @),
                !.psh_count = Bump("P" \in flags, @),
                !.fwd_psh_count = Bump("P" \in flags /\ direction = "fwd", @),
                !.ack_count = Bump("A" \in flags, @),
                !.urg_count = Bump("U" \in flags, @),
                !.fwd_urg_count = Bump("U" \in flags /\ direction = "fwd", @),
                !.cwe_count = Bump("C" \in flags, @),
                !.ece_count = Bump("E" \in flags, @),
                !.init_win_fwd =
                    IF direction = "fwd" /\ f.init_win_fwd = -1 THEN packet.window ELSE @,
                !.init_win_bwd =
                    IF ~(direction = "fwd" /\ f.init_win_fwd = -1)
                       /\ direction = "bwd" /\ f.init_win_bwd = -1
                    THEN packet.window ELSE @,
                !.fwd_header_len = IF direction = "fwd" THEN @ + header_len ELSE @,
                !.bwd_header_len = IF direction = "fwd" THEN @ ELSE @ + header_len]
    ELSE f

\* add_packet without its inter-arrival block.
AddRest_untimed(f, packet, direction, pkt_time) ==
    AddTcp(AddCounters(f, packet.len, direction, pkt_time), packet, direction)

\* add_packet after its line 91: everything that follows the last_seen update.
AddRest(f, packet, direction, pkt_time) ==
    AddTcp(AddCounters(AddTiming(f, pkt_time), packet.len, direction, pkt_time),
           packet, direction)

\* CICFlow.add_packet as one call; now is its reading of time.time().
add_packet(f, packet, direction, pkt_time, now) ==
    AddRest(Touch(f, now), packet, direction, pkt_time)

\* The exact duration of get_features, lines 168-169.
Duration(f) ==
    LET duration == (f.last_seen - f.start_time) * USEC
    IN  IF duration = 0 THEN 1 ELSE duration

\* value / (duration / 1_000_000) if duration > 0 else 0.
PerSecond(value, duration) ==
    IF duration > 0 THEN PyDiv(Rat(value), PyDiv(Rat(duration), Rat(USEC))) ELSE Rat(0)

\* CICFlow.get_features.  The fields computed with np.std and np.var are left
\* out (they are irrational); every other field keeps its name.
get_features(f) ==
    LET duration == Duration(f)
        total_pkts == f.fwd_packets + f.bwd_packets
        total_bytes == f.fwd_bytes + f.bwd_bytes
    IN  ("Destination Port" :> f.dst_port)
     @@ ("Flow Duration" :> duration)
     @@ ("Total Fwd Packets" :> f.fwd_packets)
     @@ ("Total Backward Packets" :> f.bwd_packets)
     @@ ("Total Length of Fwd Packets" :> f.fwd_bytes)
     @@ ("Total Length of Bwd Packets" :> f.bwd_bytes)
     @@ ("Fwd Packet Length Max" :> SafeMax(f.fwd_pkt_lengths))
     @@ ("Fwd Packet Length Min" :> SafeMin(f.fwd_pkt_lengths))
     @@ ("Fwd Packet Length Mean" :> SafeMean(f.fwd_pkt_lengths))
     @@ ("Bwd Packet Length Max" :> SafeMax(f.bwd_pkt_lengths))
     @@ ("Bwd Packet Length Min" :> SafeMin(f.bwd_pkt_lengths))
     @@ ("Bwd Packet Length Mean" :> SafeMean(f.bwd_pkt_lengths))
     @@ ("Flow Bytes/s" :> PerSecond(total_bytes, duration))
     @@ ("Flow Packets/s" :> PerSecond(total_pkts, duration))
     @@ ("Flow IAT Mean" :> SafeMean(f.flow_iat))
     @@ ("Flow IAT Max" :> SafeMax(f.flow_iat))
     @@ ("Flow IAT Min" :> SafeMin(f.flow_iat))
     @@ ("Fwd IAT Total" :> IF f.fwd_iat # <<>> THEN SumSeq(f.fwd_iat) ELSE 0)
     @@ ("Fwd IAT Mean" :> SafeMean(f.fwd_iat))
     @@ ("Fwd IAT Max" :> SafeMax(f.fwd_iat))
     @@ ("Fwd IAT Min" :> SafeMin(f.fwd_iat))
     @@ ("Bwd IAT Total" :> IF f.bwd_iat # <<>> THEN SumSeq(f.bwd_iat) ELSE 0)
     @@ ("Bwd IAT Mean" :> SafeMean(f.bwd_iat))
     @@ ("Bwd IAT Max" :> SafeMax(f.bwd_iat))
     @@ ("Bwd IAT Min" :> SafeMin(f.bwd_iat))
     @@ ("Fwd PSH Flags" :> f.fwd_psh_count)
     @@ ("Fwd URG Flags" :> f.fwd_urg_count)
     @@ ("Fwd Header Length" :> f.fwd_header_len)
     @@ ("Bwd Header Length" :> f.bwd_header_len)
     @@ ("Fwd Packets/s" :> PerSecond(f.fwd_packets, duration))
     @@ ("Bwd Packets/s" :> PerSecond(f.bwd_packets, duration))
     @@ ("Min Packet Length" :> SafeMin(f.all_pkt_lengths))
     @@ ("Max Packet Length" :> SafeMax(f.all_pkt_lengths))
     @@ ("Packet Length Mean" :> SafeMean(f.all_pkt_lengths))
     @@ ("FIN Flag Count" :> f.fin_count)
     @@ ("SYN Flag Count" :> f.syn_count)
     @@ ("RST Flag Count" :> f.rst_count)
     @@ ("PSH Flag Count" :> f.psh_count)
     @@ ("ACK Flag Count" :> f.ack_count)
     @@ ("URG Flag Count" :> f.urg_count)
     @@ ("CWE Flag Count" :> f.cwe_count)
     @@ ("ECE Flag Count" :> f.ece_count)
     @@ ("Down/Up Ratio" :> IF f.fwd_packets > 0
                            THEN PyDiv(Rat(f.bwd_packets), Rat(f.fwd_packets)) ELSE Rat(0))
     @@ ("Average Packet Size" :> IF total_pkts > 0
                                  THEN PyDiv(Rat(total_bytes), Rat(total_pkts)) ELSE Rat(0))
     @@ ("Avg Fwd Segment Size" :> SafeMean(f.fwd_pkt_lengths))
     @@ ("Avg Bwd Segment Size" :> SafeMean(f.bwd_pkt_lengths))
     @@ ("Fwd Header Length.1" :> f.fwd_header_len)
     @@ ("Subflow Fwd Packets" :> f.fwd_packets)
     @@ ("Subflow Fwd Bytes" :> f.fwd_bytes)
     @@ ("Subflow Bwd Packets" :> f.bwd_packets)
     @@ ("Subflow Bwd Bytes" :> f.bwd_bytes)
     @@ ("Init_Win_bytes_forward" :> f.init_win_fwd)
     @@ ("Init_Win_bytes_backward" :> f.init_win_bwd)
     @@ ("act_data_pkt_fwd" :> f.fwd_data_pkts)
     @@ ("min_seg_size_forward" :> IF f.min_seg_size_fwd > 0 THEN f.min_seg_size_fwd ELSE 20)
     @@ ("Active Mean" :> SafeMean(f.active_times))
     @@ ("Active Max" :> SafeMax(f.active_times))
     @@ ("Active Min" :> SafeMin(f.active_times))
     @@ ("Idle Mean" :> SafeMean(f.idle_times))
     @@ ("Idle Max" :> SafeMax(f.idle_times))
     @@ ("Idle Min" :> SafeMin(f.idle_times))

\* ----------------------------------------------------------- get_flow_key
\* Python's a < b on two (address, port) tuples.
TupleLess(a, b) == a[1] < b[1] \/ (a[1] = b[1] /\ a[2] < b[2])

\* sorted() of a two-element list: stable, the second goes first only if smaller.
Sorted2(a, b) == IF TupleLess(b, a) THEN <<b, a>> ELSE <<a, b>>

\* Mutant: the two endpoints in packet order, not sorted.
get_flow_key_unsorted(src_ip, src_port, dst_ip, dst_port) ==
    <<<<src_ip, src_port>>, <<dst_ip, dst_port>>>>

get_flow_key(src_ip, src_port, dst_ip, dst_port) ==
    Sorted2(<<src_ip, src_port>>, <<dst_ip, dst_port>>)

\* packet_handler, lines 310-323: the key of a TCP or UDP packet.
KeyOf(packet) ==
    get_flow_key(packet.src_ip, packet.src_port, packet.dst_ip, packet.dst_port)

\* The direction taken from the record's destination endpoint.
Direction_bydst(flow, packet) ==
    IF <<packet.src_ip, packet.src_port>> = <<flow.dst_ip, flow.dst_port>>
    THEN "fwd" ELSE "bwd"

\* packet_handler, line 331.
Direction(flow, packet) ==
    IF <<packet.src_ip, packet.src_port>> = <<flow.src_ip, flow.src_port>>
    THEN "fwd" ELSE "bwd"

\* ------------------------------------------------------------------ state
VARIABLES
    clock,          \* time.time(), in seconds
    active_flows,   \* the dict active_flows: flow key -> record (an index of heap)
    heap,           \* every CICFlow object created so far
    hist,           \* per record: what happened to it (observation only)
    PACKET_COUNT,   \* the global packet counter
    hpc,            \* the main thread: where it is in packet_handler / main
    hpkt,           \* the packet packet_handler is handling and its time (<<>>: none)
    hflow,          \* packet_handler's local variable flow (0: none)
    hsent,          \* the main thread's local variable flow in send_flow_to_api
    hkeys,          \* the keys the shutdown flush still has to send
    spc,            \* the sweeper thread: where it is in flow_timeout_checker
    expired,        \* the sweeper's list of expired keys still to send
    sflow,          \* the sweeper's local variable flow in send_flow_to_api
    wake,           \* the seconds left of the sweeper's time.sleep(1)
    kpkts,          \* SpecKey: the two packets whose keys are computed
    kkeys,          \* SpecKey: their keys (<<>> before the computation)
    flow,           \* SpecFlow: the record (<<>> before its creation)
    features,       \* SpecFlow: the result of get_features (<<>> before closure)
    ptimes,         \* SpecFlow: the packet times fed to add_packet (observation only)
    rfeatures,      \* SpecRules: the dict handed to rule_based_classification
    rresult,        \* SpecRules: what it returned (<<>> before the call)
    EVENT_HISTORY,  \* ids_engine: the deque of recent events
    request,        \* ids_engine: the last POST /predict and how the models answered
    response,       \* ids_engine: what predict_flow answered (<<>> before any request)
    served,         \* ids_engine: the requests handled so far
    recorded,       \* ids_engine: the events appended since the last POST /clear
                    \* (observation only)
    calls,          \* ids_engine: the classifiers the last request invoked (observation only)
    BINARY_MODEL,   \* ids_engine: "loaded", or "None" when loading it failed (line 58)
    MULTICLASS_MODEL, \* ids_engine: "loaded", or "None" when loading it failed (line 78)
    EVENTS,         \* ids_demo: the deque EVENTS, newest event first
    STATS,          \* ids_demo: the dict the global STATS is bound to, and its identity
    workers,        \* ids_demo: per request thread, where it is in api_predict
    resetter,       \* ids_demo: the thread serving POST /api/reset
    dresponse       \* ids_demo: the last answer to GET /api/events or /api/stats

tableVars == <<active_flows, heap, hist, PACKET_COUNT>>
mainVars == <<hpc, hpkt, hflow, hsent, hkeys>>
sweepVars == <<spc, expired, sflow, wake>>
keyVars == <<kpkts, kkeys>>
flowVars == <<flow, features, ptimes>>
ruleVars == <<rfeatures, rresult>>
serverVars == <<EVENT_HISTORY, request, response, served, recorded, calls, BINARY_MODEL,
                MULTICLASS_MODEL>>
demoVars == <<EVENTS, STATS, workers, resetter, dresponse>>
engineVars == <<ruleVars, serverVars, demoVars>>
vars == <<clock, tableVars, mainVars, sweepVars, keyVars, engineVars, flowVars>>

\* The state at process start: an empty table, both threads at their first line.
TableInit ==
    /\ active_flows = <<>>
    /\ heap = <<>>
    /\ hist = <<>>
    /\ PACKET_COUNT = 0
    /\ hpc = "sniff"
    /\ hpkt = <<>>
    /\ hflow = 0
    /\ hsent = 0
    /\ hkeys = <<>>
    /\ spc = "sleep"
    /\ expired = <<>>
    /\ sflow = 0
    /\ wake = SWEEP_INTERVAL

KeyIdle == kpkts = <<>> /\ kkeys = <<>>
FlowIdle == flow = <<>> /\ features = <<>> /\ ptimes = <<>>
RulesIdle == rfeatures = <<>> /\ rresult = <<>>
ServerIdle ==
    /\ EVENT_HISTORY = <<>>
    /\ request = <<>>
    /\ response = <<>>
    /\ served = 0
    /\ recorded = 0
    /\ calls = {}
    /\ BINARY_MODEL = "loaded"
    /\ MULTICLASS_MODEL = "loaded"

\* ids_demo/app.py, lines 289-296: the storage as the module creates it.  id
\* tells the dicts apart that STATS is bound to in turn.
Workers == {1, 2}
Labels == {"BENIGN", "DDoS"}
\* true_label of a request: absent, the string "DDoS", the JSON array ["DDoS"].
TrueLabels == {<<>>, <<"DDoS">>, << <<"DDoS">> >>}
NewStats(id) ==
    [id |-> id, total |-> 0, benign |-> 0, attacks |-> 0,
     by_type |-> [l \in Labels |-> 0],
     online_cm |-> [k \in Labels \X Labels |-> 0]]
IdleWorker == [at |-> 0, phase |-> "", label |-> "", true_label |-> <<>>,
               ref |-> 0, tmp |-> 0, begun |-> 0, done |-> 0]
DemoIdle ==
    /\ EVENTS = <<>>
    /\ STATS = NewStats(0)
    /\ workers = [w \in Workers |-> IdleWorker]
    /\ resetter = [pc |-> "idle", resets |-> 0]
    /\ dresponse = <<>>
EngineIdle == RulesIdle /\ ServerIdle /\ DemoIdle

\* ---------------------------------------------------------------- SpecKey
\* get_flow_key applied to two packets between the same two endpoints.
KeyIps == {1, 2, 3}
KeyPorts == {80, 5000}
KeyEndpoints == KeyIps \X KeyPorts
KeyProtos == {"TCP", "UDP"}

KeyPacket(src, dst, proto) == Packet(src[1], src[2], dst[1], dst[2], proto, {}, 60, 0, 0)

KeyInit ==
    /\ clock = 0
    /\ TableInit
    /\ FlowIdle
    /\ EngineIdle
    /\ kkeys = <<>>
    /\ \E a \in KeyEndpoints, b \in KeyEndpoints, p1 \in KeyProtos, p2 \in KeyProtos :
          \/ kpkts = <<KeyPacket(a, b, p1), KeyPacket(b, a, p2)>>
          \/ kpkts = <<KeyPacket(a, b, p1), KeyPacket(a, b, p2)>>

ComputeKeys ==
    /\ kkeys = <<>>
    /\ kkeys' = <<KeyOf(kpkts[1]), KeyOf(kpkts[2])>>
    /\ UNCHANGED <<clock, tableVars, mainVars, sweepVars, kpkts, flowVars, engineVars>>

KeyNext == ComputeKeys

SpecKey == KeyInit /\ [][KeyNext]_vars

SameConnection(p, q) ==
    {<<p.src_ip, p.src_port>>, <<p.dst_ip, p.dst_port>>}
        = {<<q.src_ip, q.src_port>>, <<q.dst_ip, q.dst_port>>}

Opposite(p, q) ==
    /\ <<p.src_ip, p.src_port>> = <<q.dst_ip, q.dst_port>>
    /\ <<p.dst_ip, p.dst_port>> = <<q.src_ip, q.src_port>>

\* C7: two packets of one connection travelling in opposite directions get
\* the same flow key.
C7_KeySymmetric ==
    (kkeys # <<>> /\ Opposite(kpkts[1], kpkts[2])) => kkeys[1] = kkeys[2]

\* C7 witness: keys were computed for an A->B / B->A pair of distinct
\* endpoints, the first of which had to be swapped by the sort.
C7_Witness ==
    /\ kkeys # <<>>
    /\ Opposite(kpkts[1], kpkts[2])
    /\ TupleLess(<<kpkts[1].dst_ip, kpkts[1].dst_port>>, <<kpkts[1].src_ip, kpkts[1].src_port>>)
    /\ kkeys[1] = kkeys[2]

\* --------------------------------------------------------------- SpecFlow
\* One CICFlow object driven the way packet_handler and send_flow_to_api drive
\* it: created on a first packet, fed further packets of its connection, and
\* read once by get_features.  A packet is stamped with the wall clock at its
\* capture and handled at once; the wall clock may be set back (time.time() is
\* not monotonic), which is also how packet times get out of order.
Times == {0, 2, 3}

FlowPackets ==
    { Packet(1, 5000, 2, 80, "TCP", {"S"}, 60, 1024, 5),
      Packet(2, 80, 1, 5000, "TCP", {"S", "A"}, 60, 8192, 0),
      Packet(1, 5000, 2, 80, "TCP", {"P", "A"}, 40, 0, 8),
      Packet(2, 80, 1, 5000, "UDP", {}, 40, 0, 0) }

FlowInit ==
    /\ clock = 0
    /\ TableInit
    /\ KeyIdle
    /\ FlowIdle
    /\ EngineIdle

ClockAdvance ==
    /\ \E t \in Times : t > clock /\ clock' = t
    /\ UNCHANGED <<tableVars, mainVars, sweepVars, keyVars, engineVars, flowVars>>

ClockSetBack ==
    /\ \E t \in Times : t < clock /\ clock' = t
    /\ UNCHANGED <<tableVars, mainVars, sweepVars, keyVars, engineVars, flowVars>>

\* packet_handler, lines 326 and 330-332, on the first packet of a key.
FlowCreate ==
    /\ flow = <<>>
    /\ \E packet \in FlowPackets :
          LET pkt_time == clock
              new == CICFlow(packet.src_ip, packet.dst_ip, packet.src_port,
                             packet.dst_port, packet.proto, clock, clock)
          IN  /\ flow' = <<add_packet(new, packet, Direction(new, packet), pkt_time, clock)>>
              /\ ptimes' = <<pkt_time>>
    /\ UNCHANGED <<clock, tableVars, mainVars, sweepVars, keyVars, engineVars, features>>

\* packet_handler, lines 330-332, on a later packet of the key.
FlowAdd ==
    /\ flow # <<>>
    /\ features = <<>>
    /\ Len(ptimes) < MaxLen
    /\ \E packet \in FlowPackets :
          /\ flow' = <<add_packet(flow[1], packet, Direction(flow[1], packet), clock, clock)>>
          /\ ptimes' = Append(ptimes, clock)
    /\ UNCHANGED <<clock, tableVars, mainVars, sweepVars, keyVars, engineVars, features>>

\* send_flow_to_api, line 258.
FlowClose ==
    /\ flow # <<>>
    /\ features = <<>>
    /\ features' = <<get_features(flow[1])>>
    /\ UNCHANGED <<clock, tableVars, mainVars, sweepVars, keyVars, engineVars, flow, ptimes>>

FlowNext == ClockAdvance \/ ClockSetBack \/ FlowCreate \/ FlowAdd \/ FlowClose

SpecFlow == FlowInit /\ [][FlowNext]_vars

\* The duration of the still-open active segment, in microseconds.
OpenSegment(f) == (Val(f.last_pkt_time) - Val(f.current_active_start)) * USEC

\* The time between the first and the last packet fed, in microseconds.
PacketSpan == (ptimes[Len(ptimes)] - ptimes[1]) * USEC

Abs(x) == IF x < 0 THEN -x ELSE x

\* C9 as claimed: sum(active_times) + sum(idle_times) is within one open
\* segment of the time between the first and the last packet.
C9_AsClaimed ==
    flow # <<>> =>
        Abs(SumSeq(flow[1].active_times) + SumSeq(flow[1].idle_times) - PacketSpan)
            <= Abs(OpenSegment(flow[1]))

\* C9 amended: sum(active_times) alone plus the still-open active segment is
\* exactly the time between the first and the last packet (every active
\* duration already contains the idle gap that closed it).
C9_ActiveCoversSpan ==
    flow # <<>> =>
        SumSeq(flow[1].active_times) + OpenSegment(flow[1]) = PacketSpan

\* C9 witness: a record with a closed active segment, an idle gap and a
\* non-empty open segment.
C9_Witness ==
    /\ flow # <<>>
    /\ Len(flow[1].active_times) >= 1
    /\ Len(flow[1].idle_times) >= 1
    /\ OpenSegment(flow[1]) > 0
    /\ SumSeq(flow[1].active_times) + OpenSegment(flow[1]) = PacketSpan

\* C10 as claimed: the reported Flow Duration is at least 1, and Flow Bytes/s
\* is the total bytes divided by that floored duration in seconds, never a
\* division by zero.
C10_AsClaimed ==
    features # <<>> =>
        LET f == flow[1]
            raw == (f.last_seen - f.start_time) * USEC
            floored == IF raw < 1 THEN 1 ELSE raw
        IN  /\ features[1]["Flow Duration"] >= 1
            /\ features[1]["Flow Bytes/s"] # ZeroDivisionError
            /\ features[1]["Flow Bytes/s"]
                  = PyDiv(Rat(f.fwd_bytes + f.bwd_bytes), PyDiv(Rat(floored), Rat(USEC)))

\* ------------------------------------------------------------------- Spec
\* The extractor process: the main thread runs packet_handler for each sniffed
\* packet and, on KeyboardInterrupt, the shutdown flush; the daemon thread
\* runs flow_timeout_checker.  They share active_flows without a lock; a step
\* of the model is a stretch of code between two accesses to shared state.
\* sniff() runs with filter="tcp or udp" (line 358), so every packet handed to
\* packet_handler is a TCP or a UDP packet.  The packets are those of one
\* pair of endpoints: a TCP SYN one way and a UDP datagram the other way.
SpecPackets ==
    { Packet(1, 5000, 2, 80, "TCP", {"S"}, 60, 1024, 5),
      Packet(2, 80, 1, 5000, "UDP", {}, 60, 0, 0) }

\* What the model records about a CICFlow object besides its fields.
NewHist(key) ==
    [key |-> key,           \* the key it was stored under
     popped |-> 0,          \* how often active_flows.pop returned it
     by |-> "nobody",       \* who popped it: sweeper, early or flush
     fresh |-> FALSE,       \* popped by the sweeper while not timed out
     checked |-> -1,        \* its packet count at line 255 (-1: not yet there)
     extracted |-> 0,       \* how often get_features read it
     sent |-> -1,           \* the packet count in the features sent (-1: none)
     late |-> 0,            \* add_packet calls on it after it was popped
     mixed |-> FALSE,       \* a packet of another protocol was added to it
     left |-> FALSE,        \* it was in the table when KeyboardInterrupt came
     ret |-> "none"]        \* since packet_handler last returned for it: "emit"
                            \* if it then held exactly MIN_PACKETS packets and
                            \* a SYN, else "keep" ("none" while a packet is
                            \* being handled)

Alive == hpc \notin {"exit", "fatal"}

Keys(af) == DOMAIN af

\* A CICFlow object no variable refers to any more: Python frees it.
Freed == CICFlow(0, 0, 0, 0, "freed", 0, 0)

\* The heap once the table af and the locals a, b, c hold the only references.
Collect(h, af, a, b, c) ==
    [r \in DOMAIN h |-> IF r \in {af[k] : k \in Keys(af)} \cup {a, b, c} THEN h[r] ELSE Freed]

RECURSIVE SeqsOf(_)
\* Every ordering of a finite set, as sequences.
SeqsOf(S) ==
    IF S = {} THEN {<<>>}
    ELSE UNION {{<<x>> \o q : q \in SeqsOf(S \ {x})} : x \in S}

\* A pop that returns the record and leaves it in the table, as a plain
\* active_flows.get(flow_key) would.
PopTable_keep(af, flow_key) == af

\* The dict without flow_key: the table half of active_flows.pop(flow_key, None).
PopTable(af, flow_key) == [k \in Keys(af) \ {flow_key} |-> af[k]]

\* The record active_flows.pop(flow_key, None) returns; 0 stands for None.
PopResult(af, flow_key) == IF flow_key \in Keys(af) THEN af[flow_key] ELSE 0

\* send_flow_to_api without the packet-count test of line 255.
TooFew_never(f) == FALSE

\* The packet-count test of line 255 written with <= MIN_PACKETS - 2.
TooFew_offbyone(f) == f.fwd_packets + f.bwd_packets < MIN_PACKETS - 1

\* send_flow_to_api, line 255: flow.fwd_packets + flow.bwd_packets < MIN_PACKETS.
TooFew(f) == f.fwd_packets + f.bwd_packets < MIN_PACKETS

\* packet_handler, line 335.
EarlyEmit(f) == f.fwd_packets + f.bwd_packets = 2 /\ f.syn_count >= 1

\* The timeout test with its operands exchanged.
Expired_swapped(f, now) == f.last_seen - now > FLOW_TIMEOUT

\* flow_timeout_checker, line 294: the record is expired at time now.
Expired(f, now) == now - f.last_seen > FLOW_TIMEOUT

\* What hist records when packet_handler returns with its local flow r.
Returned(h, r) ==
    [h EXCEPT ![r].ret =
        IF heap[r].fwd_packets + heap[r].bwd_packets = MIN_PACKETS /\ heap[r].syn_count >= 1
        THEN "emit" ELSE "keep"]

\* send_flow_to_api, line 254, run by who on flow_key: the new table, the
\* history, and the caller's local flow.
SendPop(who, flow_key, local) ==
    LET r == PopResult(active_flows, flow_key)
    IN  /\ active_flows' = PopTable(active_flows, flow_key)
        /\ local' = r
        /\ hist' = IF r = 0 THEN hist
                   ELSE [hist EXCEPT ![r].popped = @ + 1, ![r].by = who,
                                     ![r].fresh = (who = "sweeper"
                                                   /\ ~Expired(heap[r], clock))]

\* send_flow_to_api, lines 255-288, on the local flow r: return on None or on
\* too few packets, else get_features and the POST of the features.
SendRest(r) ==
            IF r = 0 THEN hist
            ELSE LET f == heap[r]
                     n == f.fwd_packets + f.bwd_packets
                 IN  IF TooFew(f) THEN [hist EXCEPT ![r].checked = n]
                     ELSE LET features_ == get_features(f)
                          IN  [hist EXCEPT
                                 ![r].checked = n,
                                 ![r].extracted = @ + 1,
                                 ![r].sent = features_["Total Fwd Packets"]
                                             + features_["Total Backward Packets"]]

Init ==
    /\ clock = 0
    /\ TableInit
    /\ KeyIdle
    /\ FlowIdle
    /\ EngineIdle

\* A second of wall-clock time passes.
Tick ==
    /\ Alive
    /\ clock < MaxTime
    /\ clock' = clock + 1
    /\ wake' = IF wake > 0 THEN wake - 1 ELSE 0
    /\ UNCHANGED <<tableVars, mainVars, spc, expired, sflow, keyVars, engineVars, flowVars>>

\* packet_handler, lines 301-328: a packet whose key is not in the table; the
\* new CICFlow is stored under the key.
ReceiveNew ==
    /\ hpc = "sniff"
    /\ PACKET_COUNT < MaxPkts
    /\ \E packet \in SpecPackets :
          /\ packet.proto \in {"TCP", "UDP"}
          /\ KeyOf(packet) \notin Keys(active_flows)
          /\ PACKET_COUNT' = PACKET_COUNT + 1
          /\ hpkt' = <<packet, clock>>
          /\ heap' = Append(heap, CICFlow(packet.src_ip, packet.dst_ip, packet.src_port,
                                          packet.dst_port, packet.proto, clock, clock))
          /\ hist' = Append(hist, NewHist(KeyOf(packet)))
          /\ active_flows' = (KeyOf(packet) :> (Len(heap) + 1)) @@ active_flows
    /\ hpc' = "lookup"
    /\ hflow' = 0
    /\ UNCHANGED <<clock, hsent, hkeys, sweepVars, keyVars, engineVars, flowVars>>

\* packet_handler, lines 301-325: a packet whose key is in the table.
ReceiveKnown ==
    /\ hpc = "sniff"
    /\ PACKET_COUNT < MaxPkts
    /\ \E packet \in SpecPackets :
          /\ packet.proto \in {"TCP", "UDP"}
          /\ KeyOf(packet) \in Keys(active_flows)
          /\ PACKET_COUNT' = PACKET_COUNT + 1
          /\ hpkt' = <<packet, clock>>
    /\ hpc' = "lookup"
    /\ hflow' = 0
    /\ UNCHANGED <<clock, active_flows, heap, hist, hsent, hkeys, sweepVars, keyVars, engineVars, flowVars>>

\* packet_handler, line 330: flow = active_flows[flow_key].
Lookup ==
    /\ hpc = "lookup"
    /\ KeyOf(hpkt[1]) \in Keys(active_flows)
    /\ hflow' = active_flows[KeyOf(hpkt[1])]
    /\ hist' = [hist EXCEPT ![active_flows[KeyOf(hpkt[1])]].ret = "none"]
    /\ hpc' = "touch"
    /\ UNCHANGED <<clock, active_flows, heap, PACKET_COUNT, hpkt, hsent, hkeys, sweepVars,
                   keyVars, engineVars, flowVars>>

\* packet_handler, line 330, when the key is gone: KeyError leaves sniff() and
\* main() ends at its except Exception clause, line 363.
LookupKeyError ==
    /\ hpc = "lookup"
    /\ KeyOf(hpkt[1]) \notin Keys(active_flows)
    /\ hpc' = "fatal"
    /\ UNCHANGED <<clock, tableVars, hpkt, hflow, hsent, hkeys, sweepVars, keyVars, engineVars, flowVars>>

\* add_packet, line 91.
AddTouch ==
    /\ hpc = "touch"
    /\ heap' = [heap EXCEPT ![hflow] = Touch(@, clock)]
    /\ hpc' = "add"
    /\ UNCHANGED <<clock, active_flows, hist, PACKET_COUNT, hpkt, hflow, hsent, hkeys,
                   sweepVars, keyVars, engineVars, flowVars>>

\* packet_handler, line 331, and add_packet, lines 93-161.
AddPacket ==
    /\ hpc = "add"
    /\ heap' = [heap EXCEPT
                  ![hflow] = AddRest(@, hpkt[1], Direction(@, hpkt[1]), hpkt[2])]
    /\ hist' = [hist EXCEPT
                  ![hflow].late = IF hist[hflow].popped > 0 THEN @ + 1 ELSE @,
                  ![hflow].mixed = @ \/ hpkt[1].proto # heap[hflow].protocol]
    /\ hpc' = "check"
    /\ UNCHANGED <<clock, active_flows, PACKET_COUNT, hpkt, hflow, hsent, hkeys,
                   sweepVars, keyVars, engineVars, flowVars>>

\* packet_handler, line 335, when the early-emit test fails: the handler returns.
NoEarlyEmit ==
    /\ hpc = "check"
    /\ ~EarlyEmit(heap[hflow])
    /\ hpc' = "sniff"
    /\ hpkt' = <<>>
    /\ hflow' = 0
    /\ hist' = Returned(hist, hflow)
    /\ heap' = Collect(heap, active_flows, 0, 0, sflow)
    /\ UNCHANGED <<clock, active_flows, PACKET_COUNT, hsent, hkeys, sweepVars,
                   keyVars, engineVars, flowVars>>

\* packet_handler, lines 335-336, and send_flow_to_api, line 254.
EarlyPop ==
    /\ hpc = "check"
    /\ EarlyEmit(heap[hflow])
    /\ SendPop("early", KeyOf(hpkt[1]), hsent)
    /\ hpc' = "send"
    /\ UNCHANGED <<clock, heap, PACKET_COUNT, hpkt, hflow, hkeys, sweepVars,
                   keyVars, engineVars, flowVars>>

\* send_flow_to_api, lines 255-288, in packet_handler; the handler returns.
EarlySend ==
    /\ hpc = "send"
    /\ hist' = Returned(SendRest(hsent), hflow)
    /\ hpc' = "sniff"
    /\ hpkt' = <<>>
    /\ hflow' = 0
    /\ hsent' = 0
    /\ heap' = Collect(heap, active_flows, 0, 0, sflow)
    /\ UNCHANGED <<clock, active_flows, PACKET_COUNT, hkeys, sweepVars, keyVars, engineVars, flowVars>>

\* main, lines 359-361: KeyboardInterrupt reaches the main thread wherever it
\* is in sniff(); the flush takes list(active_flows.keys()).
Interrupt ==
    /\ hpc \in {"sniff", "lookup", "touch", "add", "check", "send"}
    /\ \E keys \in SeqsOf(Keys(active_flows)) : hkeys' = keys
    /\ hpc' = "flush"
    /\ hpkt' = <<>>
    /\ hflow' = 0
    /\ hsent' = 0
    /\ heap' = Collect(heap, active_flows, 0, 0, sflow)
    /\ hist' = [r \in DOMAIN hist |->
                  IF r \in {active_flows[k] : k \in Keys(active_flows)}
                  THEN [hist[r] EXCEPT !.left = TRUE] ELSE hist[r]]
    /\ UNCHANGED <<clock, active_flows, PACKET_COUNT, sweepVars, keyVars, engineVars, flowVars>>

\* main, line 362, and send_flow_to_api, line 254, for the next key.
FlushPop ==
    /\ hpc = "flush"
    /\ hkeys # <<>>
    /\ SendPop("flush", Head(hkeys), hsent)
    /\ hpc' = "flushsend"
    /\ UNCHANGED <<clock, heap, PACKET_COUNT, hpkt, hflow, hkeys, sweepVars,
                   keyVars, engineVars, flowVars>>

\* send_flow_to_api, lines 255-288, in the flush.
FlushSend ==
    /\ hpc = "flushsend"
    /\ hist' = SendRest(hsent)
    /\ hkeys' = Tail(hkeys)
    /\ hsent' = 0
    /\ heap' = Collect(heap, active_flows, 0, 0, sflow)
    /\ hpc' = "flush"
    /\ UNCHANGED <<clock, active_flows, PACKET_COUNT, hpkt, hflow,
                   sweepVars, keyVars, engineVars, flowVars>>

\* main returns after the flush: the process, and its daemon thread, end.
Exit ==
    /\ hpc = "flush"
    /\ hkeys = <<>>
    /\ hpc' = "exit"
    /\ UNCHANGED <<clock, tableVars, hpkt, hflow, hsent, hkeys, sweepVars, keyVars, engineVars, flowVars>>

\* flow_timeout_checker, lines 292-294: the sleep ends, the expired keys are
\* collected.
Scan ==
    /\ Alive
    /\ spc = "sleep"
    /\ wake = 0
    /\ \E keys \in SeqsOf({k \in Keys(active_flows) :
                              Expired(heap[active_flows[k]], clock)}) : expired' = keys
    /\ spc' = "loop"
    /\ UNCHANGED <<clock, tableVars, mainVars, sflow, wake, keyVars, engineVars, flowVars>>

\* flow_timeout_checker, lines 295-296, and send_flow_to_api, line 254.
SweepPop ==
    /\ Alive
    /\ spc = "loop"
    /\ expired # <<>>
    /\ SendPop("sweeper", Head(expired), sflow)
    /\ spc' = "send"
    /\ UNCHANGED <<clock, heap, PACKET_COUNT, mainVars, expired, wake, keyVars, engineVars, flowVars>>

\* send_flow_to_api, lines 255-288, in the sweeper.
SweepSend ==
    /\ Alive
    /\ spc = "send"
    /\ hist' = SendRest(sflow)
    /\ expired' = Tail(expired)
    /\ sflow' = 0
    /\ heap' = Collect(heap, active_flows, hflow, hsent, 0)
    /\ spc' = "loop"
    /\ UNCHANGED <<clock, active_flows, PACKET_COUNT, mainVars, wake,
                   keyVars, engineVars, flowVars>>

\* flow_timeout_checker, lines 291-292: the for loop is over, sleep again.
SweepSleep ==
    /\ Alive
    /\ spc = "loop"
    /\ expired = <<>>
    /\ wake' = SWEEP_INTERVAL
    /\ spc' = "sleep"
    /\ UNCHANGED <<clock, tableVars, mainVars, expired, sflow, keyVars, engineVars, flowVars>>

Next ==
    \/ Tick
    \/ ReceiveNew \/ ReceiveKnown
    \/ Lookup \/ LookupKeyError
    \/ AddTouch \/ AddPacket
    \/ NoEarlyEmit \/ EarlyPop \/ EarlySend
    \/ Interrupt \/ FlushPop \/ FlushSend \/ Exit
    \/ Scan \/ SweepPop \/ SweepSend \/ SweepSleep

Spec == Init /\ [][Next]_vars

\* ------------------------------------------------------- claims about Spec
Records == DOMAIN hist

InTable(r) == \E k \in Keys(active_flows) : active_flows[k] = r

RECURSIVE SumOver(_, _)
\* The sum of hist[r].extracted over the records r in R.
SumOver(h, R) ==
    IF R = {} THEN 0
    ELSE LET r == CHOOSE x \in R : TRUE IN h[r].extracted + SumOver(h, R \ {r})

\* How often features of a record stored under flow_key were extracted.
Emissions(flow_key) == SumOver(hist, {r \in Records : hist[r].key = flow_key})

\* C1: no record is handed to get_features twice, and none is popped from the
\* table twice, whichever of sweeper, early emit and flush run.
C1_AtMostOnce ==
    \A r \in Records : hist[r].extracted <= 1 /\ hist[r].popped <= 1

\* C1 witness: early emit and sweeper raced for one key; the early emit took
\* the record and sent it once, the sweeper's pop of that key returned None.
C1_Witness ==
    /\ spc = "send"
    /\ sflow = 0
    /\ \E r \in Records :
          /\ hist[r].key = Head(expired)
          /\ hist[r].by = "early"
          /\ hist[r].extracted = 1

\* C2 as claimed: every key is emitted exactly once: never twice, and once
\* its record is closed and send_flow_to_api has returned, once.
C2_AsClaimed ==
    \A r \in Records :
        /\ Emissions(hist[r].key) <= 1
        /\ (hist[r].checked >= 0 /\ hist[r].key \notin Keys(active_flows))
              => Emissions(hist[r].key) = 1

\* C2 amended: every record is emitted at most once, and a key is emitted
\* once for each of its records that send_flow_to_api found with at least
\* MIN_PACKETS packets (a record closed with fewer is dropped, and later
\* packets on the key open a new record that is emitted in its turn).
C2_OncePerClosedRecord ==
    \A r \in Records :
        /\ hist[r].extracted <= 1
        /\ Emissions(hist[r].key)
              = Cardinality({q \in Records : /\ hist[q].key = hist[r].key
                                             /\ hist[q].checked >= MIN_PACKETS})

\* C2 witness: one key emitted for two successive records.
C2_Witness ==
    \E r \in Records : Emissions(hist[r].key) = 2

\* C3 as claimed: the sweeper only pops records that are timed out at the
\* moment of the pop.
C3_AsClaimed ==
    \A r \in Records : ~hist[r].fresh

\* C4 as claimed: add_packet is never applied to a record that was popped,
\* and the sweeper never reads a record packet_handler is still updating.
C4_AsClaimed ==
    /\ \A r \in Records : hist[r].late = 0
    /\ ~(spc = "send" /\ sflow # 0 /\ sflow = hflow /\ hpc \in {"touch", "add"})

\* C5 as claimed: when packet_handler returns, a record that holds exactly
\* MIN_PACKETS packets and a SYN is out of the table and emitted (its features
\* were extracted, or the thread that popped it is about to reach line 255),
\* and any other record has not been popped by packet_handler.
C5_AsClaimed ==
    \A r \in Records :
        /\ hist[r].ret = "emit" =>
              /\ ~InTable(r)
              /\ hist[r].extracted = 1 \/ (hist[r].popped = 1 /\ hist[r].checked = -1)
        /\ hist[r].ret = "keep" => hist[r].by # "early"

\* C6: the features sent always count at least MIN_PACKETS packets, and a
\* record found with fewer at line 255 is out of the table and never sent.
C6_MinPackets ==
    \A r \in Records :
        /\ hist[r].extracted >= 1 => hist[r].sent >= MIN_PACKETS
        /\ (hist[r].checked >= 0 /\ hist[r].checked < MIN_PACKETS)
              => (hist[r].extracted = 0 /\ ~InTable(r))

\* C6 witness: one record was dropped with a single packet, another was sent.
C6_Witness ==
    \E r \in Records, q \in Records :
        /\ hist[r].checked = 1 /\ hist[r].extracted = 0
        /\ hist[q].extracted = 1 /\ hist[q].sent >= MIN_PACKETS

\* C8 as claimed: no record aggregates packets of two transport protocols.
C8_AsClaimed ==
    \A r \in Records : ~hist[r].mixed

\* ============================================================ ids_engine.py
\* Confidences and probabilities are counted in hundredths: 0.90 is 90.  The
\* rate pps is an exact value <<numerator, denominator>>.

\* a > b and a < b on exact values with positive denominators.
Gt(a, b) == a[1] * b[2] > b[1] * a[2]
Lt(a, b) == a[1] * b[2] < b[1] * a[2]

\* dict.get(key, default); a dict is a function whose domain is its keys.
Get(d, key, default) == IF key \in DOMAIN d THEN d[key] ELSE default

\* rule_based_classification, lines 129-153: the local variables.
RuleLocals(feats) ==
    LET fwd_packets == Get(feats, "Total Fwd Packets", 0)
        bwd_packets == Get(feats, "Total Backward Packets", 0)
        flow_duration == Get(feats, "Flow Duration", 1)
        total_packets == fwd_packets + bwd_packets
    IN  [dst_port |-> Get(feats, "Destination Port", 0),
         syn_count |-> Get(feats, "SYN Flag Count", 0),
         rst_count |-> Get(feats, "RST Flag Count", 0),
         ack_count |-> Get(feats, "ACK Flag Count", 0),
         psh_count |-> Get(feats, "PSH Flag Count", 0),
         fin_count |-> Get(feats, "FIN Flag Count", 0),
         fwd_packets |-> fwd_packets,
         bwd_packets |-> bwd_packets,
         fwd_bytes |-> Get(feats, "Total Length of Fwd Packets", 0),
         bwd_bytes |-> Get(feats, "Total Length of Bwd Packets", 0),
         flow_duration |-> flow_duration,
         fwd_packets_s |-> Get(feats, "Fwd Packets/s", 0),
         init_win_bwd |-> Get(feats, "Init_Win_bytes_backward", -1),
         total_packets |-> total_packets,
         pps |-> IF flow_duration > 0
                 THEN PyDiv(Rat(total_packets), PyDiv(Rat(flow_duration), Rat(USEC)))
                 ELSE Rat(fwd_packets),
         is_asymmetric |-> (bwd_packets = 0) \/ (fwd_packets > bwd_packets * 2),
         is_very_asymmetric |-> (bwd_packets = 0) \/ (fwd_packets > bwd_packets * 5)]

\* The web-port block with its rate test moved in front of the SYN tests.
WebPortChecks_ratefirst(v) ==
    IF v.dst_port \in {80, 443, 8080}
    THEN IF Gt(v.pps, Rat(20)) \/ v.syn_count >= 1 THEN Some(<<"DDoS", 80>>) ELSE None
    ELSE None

\* rule_based_classification, lines 161-171: None when the block falls through.
WebPortChecks(v) ==
    IF v.dst_port \in {80, 443, 8080}
    THEN IF v.syn_count >= 2 /\ v.is_very_asymmetric
         THEN Some(<<"DDoS", 90>>)
         ELSE IF /\ v.fwd_packets >= 2 /\ v.syn_count >= 1 /\ v.is_asymmetric
                 /\ v.ack_count <= v.syn_count
              THEN Some(<<"DDoS", 85>>)
              ELSE IF Gt(v.pps, Rat(20)) THEN Some(<<"DDoS", 80>>) ELSE None
    ELSE None

\* rule_based_classification, lines 174-188.
DoSChecks(v) ==
    IF Gt(v.pps, Rat(50)) /\ v.is_asymmetric
    THEN Some(<<"DDoS", 85>>)
    ELSE IF v.dst_port = 80 /\ v.psh_count >= 3 /\ v.fwd_packets >= 5
         THEN Some(<<"DoS Hulk", 80>>)
         ELSE IF /\ v.dst_port \in {80, 443} /\ v.flow_duration > 30000000
                 /\ v.fwd_packets >= 2 /\ Lt(v.pps, Rat(5))
              THEN Some(<<"DoS slowloris", 75>>)
              ELSE IF v.dst_port = 80 /\ v.psh_count >= 5 /\ v.fwd_packets >= 10
                   THEN Some(<<"DoS GoldenEye", 75>>)
                   ELSE None

\* rule_based_classification, lines 195-202.
PortScanChecks(v) ==
    IF /\ v.syn_count >= 1 /\ v.rst_count >= 1
       /\ v.fwd_packets <= 3 /\ v.flow_duration < 2000000
    THEN Some(<<"PortScan", 85>>)
    ELSE IF /\ v.syn_count >= 1 /\ v.bwd_packets = 0 /\ v.fwd_packets <= 2
            /\ v.dst_port \notin {80, 443, 8080}
         THEN Some(<<"PortScan", 80>>)
         ELSE None

\* The brute-force block left out.
BruteForceChecks_skipped(v) == None

\* rule_based_classification, lines 209-224.
BruteForceChecks(v) ==
    IF v.dst_port = 22 /\ (v.fwd_packets >= 3 \/ v.syn_count >= 2)
    THEN Some(<<"SSH-Patator", 85>>)
    ELSE IF v.dst_port = 21 /\ (v.fwd_packets >= 3 \/ v.syn_count >= 2)
         THEN Some(<<"FTP-Patator", 85>>)
         ELSE IF v.dst_port = 23 /\ v.fwd_packets >= 3
              THEN Some(<<"Telnet Brute Force", 80>>)
              ELSE IF v.dst_port = 3389 /\ v.fwd_packets >= 3
                   THEN Some(<<"RDP Brute Force", 80>>)
                   ELSE None

\* rule_based_classification, lines 230-255.
PatternChecks(v) ==
    IF /\ v.dst_port \in {80, 443, 8080, 8443}
       /\ v.psh_count >= 3 /\ v.fwd_bytes > 1000
    THEN Some(<<"Web Attack", 70>>)
    ELSE IF /\ v.flow_duration > 30000000 /\ v.fwd_packets >= 3
            /\ Gt(v.pps, <<1, 2>>) /\ Lt(v.pps, Rat(10))
         THEN Some(<<"Bot", 65>>)
         ELSE IF v.dst_port > 10000 /\ v.fwd_bytes > 5000
              THEN Some(<<"Infiltration", 60>>)
              ELSE IF v.dst_port = 443 /\ v.bwd_bytes > v.fwd_bytes * 10
                   THEN Some(<<"Heartbleed", 65>>)
                   ELSE None

\* rule_based_classification, lines 262-268.
DefaultChecks(v) ==
    IF v.dst_port \in {80, 443, 8080} /\ v.is_asymmetric
    THEN <<"DDoS", 70>>
    ELSE IF v.dst_port \in {22, 21, 23, 3389} /\ v.fwd_packets >= 2
         THEN <<"Brute Force", 65>>
         ELSE <<"Unknown Attack", 50>>

\* rule_based_classification: the first block that returns decides.
rule_based_classification(feats) ==
    LET v == RuleLocals(feats)
    IN  IF ~IsNone(WebPortChecks(v)) THEN Val(WebPortChecks(v))
        ELSE IF ~IsNone(DoSChecks(v)) THEN Val(DoSChecks(v))
        ELSE IF ~IsNone(PortScanChecks(v)) THEN Val(PortScanChecks(v))
        ELSE IF ~IsNone(BruteForceChecks(v)) THEN Val(BruteForceChecks(v))
        ELSE IF ~IsNone(PatternChecks(v)) THEN Val(PatternChecks(v))
        ELSE DefaultChecks(v)

\* --------------------------------------------------------------- SpecRules
\* rule_based_classification applied to one feature dict.  Each field is given
\* one of a few values around the thresholds of the checks; -1 in a choice
\* leaves the key out of the dict.
Absent == -1

RuleFields ==
    <<"Destination Port", "SYN Flag Count", "RST Flag Count", "ACK Flag Count",
      "PSH Flag Count", "Total Fwd Packets", "Total Backward Packets",
      "Total Length of Fwd Packets", "Total Length of Bwd Packets", "Flow Duration">>

\* The dict with the keys of RuleFields whose choice is not Absent.
MakeDict(choice) ==
    LET present == {i \in DOMAIN RuleFields : choice[i] # Absent}
    IN  [k \in {RuleFields[i] : i \in present} |->
            choice[CHOOSE i \in present : RuleFields[i] = k]]

RuleChoices ==
    {Absent, 80, 443, 22, 23, 12000, 53}      \* Destination Port
    \X {Absent, 0, 1, 3}                      \* SYN Flag Count
    \X {0, 1}                                 \* RST Flag Count
    \X {0, 2}                                 \* ACK Flag Count
    \X {0, 3, 5}                              \* PSH Flag Count
    \X {0, 2, 3, 6, 20}                       \* Total Fwd Packets
    \X {Absent, 0, 1}                         \* Total Backward Packets
    \X {0, 1001, 5001}                        \* Total Length of Fwd Packets
    \X {0, 60000}                             \* Total Length of Bwd Packets
    \X {Absent, 0, 1, 1000000, 31000000}      \* Flow Duration

RulesInit ==
    /\ clock = 0
    /\ TableInit
    /\ KeyIdle
    /\ FlowIdle
    /\ ServerIdle
    /\ DemoIdle
    /\ rresult = <<>>
    /\ \E choice \in RuleChoices : rfeatures = MakeDict(choice)

Classify ==
    /\ rresult = <<>>
    /\ rresult' = <<rule_based_classification(rfeatures)>>
    /\ UNCHANGED <<clock, tableVars, mainVars, sweepVars, keyVars, flowVars, rfeatures,
                   serverVars, demoVars>>

RulesNext == Classify

SpecRules == RulesInit /\ [][RulesNext]_vars

\* ------------------------------------------------- claims about SpecRules
\* C11: a dict with Destination Port 80, 443 or 8080, at least 2 SYN and no
\* backward packets or more than 5 forward packets per backward packet is
\* classified ("DDoS", 0.90), whatever its other fields hold.
C11_SynFlood ==
    LET fwd == Get(rfeatures, "Total Fwd Packets", 0)
        bwd == Get(rfeatures, "Total Backward Packets", 0)
    IN  (/\ rresult # <<>>
         /\ Get(rfeatures, "Destination Port", 0) \in {80, 443, 8080}
         /\ Get(rfeatures, "SYN Flag Count", 0) >= 2
         /\ (bwd = 0 \/ fwd > 5 * bwd))
            => rresult[1] = <<"DDoS", 90>>

\* C11 witness: dst_port=80, SYN=3, ACK=0, forward=3, backward=0 was classified
\* ("DDoS", 0.90).
C11_Witness ==
    /\ rresult = << <<"DDoS", 90>> >>
    /\ Get(rfeatures, "Destination Port", 0) = 80
    /\ Get(rfeatures, "SYN Flag Count", 0) = 3
    /\ Get(rfeatures, "ACK Flag Count", 0) = 0
    /\ Get(rfeatures, "Total Fwd Packets", 0) = 3
    /\ "Total Backward Packets" \in DOMAIN rfeatures
    /\ rfeatures["Total Backward Packets"] = 0

\* The checks in the documented order (1)-(13), each with its fixed result.
DocumentedChecks(v) ==
    LET web == v.dst_port \in {80, 443, 8080}
    IN  << \* (1) web-port SYN flood at two tiers, then high-pps web traffic
           <<web /\ v.syn_count >= 2 /\ v.is_very_asymmetric, <<"DDoS", 90>> >>,
           <<web /\ v.fwd_packets >= 2 /\ v.syn_count >= 1 /\ v.is_asymmetric
                 /\ v.ack_count <= v.syn_count, <<"DDoS", 85>> >>,
           <<web /\ Gt(v.pps, Rat(20)), <<"DDoS", 80>> >>,
           \* (2) high pps and asymmetric on any port
           <<Gt(v.pps, Rat(50)) /\ v.is_asymmetric, <<"DDoS", 85>> >>,
           \* (3) HTTP bombardment
           <<v.dst_port = 80 /\ v.psh_count >= 3 /\ v.fwd_packets >= 5, <<"DoS Hulk", 80>> >>,
           \* (4) slow DoS
           <<v.dst_port \in {80, 443} /\ v.flow_duration > 30000000
                 /\ v.fwd_packets >= 2 /\ Lt(v.pps, Rat(5)), <<"DoS slowloris", 75>> >>,
           \* (5) alternate slow DoS
           <<v.dst_port = 80 /\ v.psh_count >= 5 /\ v.fwd_packets >= 10,
             <<"DoS GoldenEye", 75>> >>,
           \* (6) SYN+RST short flow
           <<v.syn_count >= 1 /\ v.rst_count >= 1 /\ v.fwd_packets <= 3
                 /\ v.flow_duration < 2000000, <<"PortScan", 85>> >>,
           \* (7) SYN without response on a non-web port
           <<v.syn_count >= 1 /\ v.bwd_packets = 0 /\ v.fwd_packets <= 2 /\ ~web,
             <<"PortScan", 80>> >>,
           \* (8) brute force on ports 22, 21, 23, 3389
           <<v.dst_port = 22 /\ (v.fwd_packets >= 3 \/ v.syn_count >= 2),
             <<"SSH-Patator", 85>> >>,
           <<v.dst_port = 21 /\ (v.fwd_packets >= 3 \/ v.syn_count >= 2),
             <<"FTP-Patator", 85>> >>,
           <<v.dst_port = 23 /\ v.fwd_packets >= 3, <<"Telnet Brute Force", 80>> >>,
           <<v.dst_port = 3389 /\ v.fwd_packets >= 3, <<"RDP Brute Force", 80>> >>,
           \* (9) generic web attack
           <<v.dst_port \in {80, 443, 8080, 8443} /\ v.psh_count >= 3 /\ v.fwd_bytes > 1000,
             <<"Web Attack", 70>> >>,
           \* (10) bot
           <<v.flow_duration > 30000000 /\ v.fwd_packets >= 3
                 /\ Gt(v.pps, <<1, 2>>) /\ Lt(v.pps, Rat(10)), <<"Bot", 65>> >>,
           \* (11) infiltration
           <<v.dst_port > 10000 /\ v.fwd_bytes > 5000, <<"Infiltration", 60>> >>,
           \* (12) Heartbleed
           <<v.dst_port = 443 /\ v.bwd_bytes > v.fwd_bytes * 10, <<"Heartbleed", 65>> >>,
           \* (13) fallbacks
           <<web /\ v.is_asymmetric, <<"DDoS", 70>> >>,
           <<v.dst_port \in {22, 21, 23, 3389} /\ v.fwd_packets >= 2, <<"Brute Force", 65>> >> >>

\* The checks of DocumentedChecks that match.
Matching(checks) == {i \in DOMAIN checks : checks[i][1]}

\* The least element of a non-empty set of numbers.
Least(S) == CHOOSE i \in S : \A j \in S : i <= j

\* C12: the result is the pair of the first documented check that matches,
\* it is ("Unknown Attack", 0.50) exactly when none matches, and there is a
\* result for every input.
C12_FirstMatch ==
    rresult # <<>> =>
        LET checks == DocumentedChecks(RuleLocals(rfeatures))
            hits == Matching(checks)
        IN  /\ hits # {} => rresult[1] = checks[Least(hits)][2]
            /\ hits = {} <=> rresult[1] = <<"Unknown Attack", 50>>
            /\ Len(rresult[1]) = 2

\* C12 witness: port 22 with 3 SYN, 2 forward packets and no answer matches
\* the stealth-scan check (7) and the SSH check (8); the earlier one decided.
C12_Witness ==
    /\ rresult = << <<"PortScan", 80>> >>
    /\ Get(rfeatures, "Destination Port", 0) = 22
    /\ Get(rfeatures, "SYN Flag Count", 0) = 3
    /\ Get(rfeatures, "Total Fwd Packets", 0) = 2

\* ------------------------------------------------------------ predict_flow
ATTACK_THRESHOLD == 25
CONFIDENT_BENIGN_THRESHOLD == 80
\* attack_prob > 0.20, line 349.
TYPING_THRESHOLD == 20
\* deque(maxlen=100), line 27.
EVENT_HISTORY_maxlen == 100

\* The names the binary model was trained on are read from feature_names.pkl
\* (lines 50-51); these five stand for them: three that feature_map renames,
\* two that the extractor sends under the same name.
BINARY_FEATURE_NAMES ==
    <<"Flow Duration", "Total Fwd Packet", "Total Bwd packets",
      "Destination Port", "SYN Flag Count">>

\* predict_flow, lines 309-316: (old_name, new_name) in the order of the dict.
feature_map ==
    << <<"Flow Duration", "Flow Duration">>,
       <<"Total Fwd Packets", "Total Fwd Packet">>,
       <<"Total Backward Packets", "Total Bwd packets">>,
       <<"Total Length of Fwd Packets", "Total Length of Fwd Packet">>,
       <<"Total Length of Bwd Packets", "Total Length of Bwd Packet">> >>

\* predict_flow, lines 319-327: the value appended for feat_name.
MappedValue(feats, feat_name) ==
    LET direct == IF feat_name \in DOMAIN feats THEN feats[feat_name] ELSE 0
        hits == {i \in DOMAIN feature_map :
                    feature_map[i][2] = feat_name /\ feature_map[i][1] \in DOMAIN feats}
    IN  IF hits = {} THEN direct ELSE feats[feature_map[Least(hits)][1]]

\* predict_flow, lines 308-328: feature_vector.
FeatureVector(feats) ==
    [i \in DOMAIN BINARY_FEATURE_NAMES |-> MappedValue(feats, BINARY_FEATURE_NAMES[i])]

PyMax(a, b) == IF a >= b THEN a ELSE b

\* predict_flow, lines 302-339: probs is what predict_proba answers for the
\* vector, <<attack_prob, benign_prob>> in hundredths.
BinaryGate(model, probs) ==
    IF model # "None"
    THEN [is_attack |-> probs[1] > ATTACK_THRESHOLD \/ probs[2] < CONFIDENT_BENIGN_THRESHOLD,
          binary_confidence |-> PyMax(probs[1], probs[2]),
          attack_prob |-> probs[1]]
    ELSE [is_attack |-> FALSE, binary_confidence |-> 50, attack_prob |-> 0]

\* A gate that sends every flow to the rule engine and the multiclass model.
NeedsTyping_always(gate) == TRUE

\* A gate that only looks at ATTACK_THRESHOLD.
NeedsTyping_threshold(gate) == gate.attack_prob > ATTACK_THRESHOLD

\* predict_flow, line 349.
NeedsTyping(gate) == gate.is_attack \/ gate.attack_prob > TYPING_THRESHOLD

\* classify_attack_type_ml, lines 88-121: answer is what the multiclass model
\* does with the dict: it raises, or it gives a class and its probability.
classify_attack_type_ml(model, answer) ==
    IF model = "None" THEN <<"Unknown", 50>>
    ELSE IF answer.raises THEN <<"Unknown", 50, <<>> >>
    ELSE <<answer.type, answer.conf, << <<answer.type, answer.conf>> >> >>

\* The decision with the multiclass result tried before the rules.
Fusion_mlfirst(rule, ml) ==
    IF ml[1] # "BENIGN" /\ ml[2] > 30
    THEN [attack_type |-> ml[1], type_confidence |-> ml[2], detection_method |-> "ml-multiclass"]
    ELSE [attack_type |-> rule[1], type_confidence |-> rule[2], detection_method |-> "rules"]

\* The decision with >= 0.30 for the multiclass confidence.
Fusion_atleast(rule, ml) ==
    IF rule[2] >= 70 /\ rule[1] # "Unknown Attack"
    THEN [attack_type |-> rule[1], type_confidence |-> rule[2], detection_method |-> "rules"]
    ELSE IF ml[1] # "BENIGN" /\ ml[2] >= 30
         THEN [attack_type |-> ml[1], type_confidence |-> ml[2],
               detection_method |-> "ml-multiclass"]
         ELSE [attack_type |-> rule[1], type_confidence |-> rule[2],
               detection_method |-> "rules"]

\* The decision without the test that the multiclass type is not BENIGN.
Fusion_anyclass(rule, ml) ==
    IF rule[2] >= 70 /\ rule[1] # "Unknown Attack"
    THEN [attack_type |-> rule[1], type_confidence |-> rule[2], detection_method |-> "rules"]
    ELSE [attack_type |-> ml[1], type_confidence |-> ml[2], detection_method |-> "ml-multiclass"]

\* predict_flow, lines 358-369.
Fusion(rule, ml) ==
    IF rule[2] >= 70 /\ rule[1] # "Unknown Attack"
    THEN [attack_type |-> rule[1], type_confidence |-> rule[2], detection_method |-> "rules"]
    ELSE IF ml[1] # "BENIGN" /\ ml[2] > 30
         THEN [attack_type |-> ml[1], type_confidence |-> ml[2],
               detection_method |-> "ml-multiclass"]
         ELSE [attack_type |-> rule[1], type_confidence |-> rule[2],
               detection_method |-> "rules"]

\* A default method named as the Verdict's enumeration names it.
DefaultTyping_binaryonly ==
    [attack_type |-> "BENIGN", type_confidence |-> 100, detection_method |-> "ml-binary-only"]

\* predict_flow, lines 344-346.
DefaultTyping ==
    [attack_type |-> "BENIGN", type_confidence |-> 100, detection_method |-> "ml"]

\* predict_flow, lines 374-389.
Event(feats, gate, is_attack, typing, ml_attack_type, now) ==
    [timestamp |-> now,
     src_ip |-> Get(feats, "src_ip", "unknown"),
     dst_ip |-> Get(feats, "dst_ip", "unknown"),
     dst_port |-> Get(feats, "Destination Port", 0),
     label |-> IF is_attack THEN "ATTACK" ELSE "BENIGN",
     attack_type |-> IF is_attack THEN typing.attack_type ELSE "BENIGN",
     confidence |-> IF is_attack THEN typing.type_confidence ELSE gate.binary_confidence,
     is_malicious |-> is_attack,
     detection_method |-> typing.detection_method,
     ml_attack_prob |-> gate.attack_prob,
     ml_attack_type |-> ml_attack_type,
     model |-> "Hybrid-v3"]

\* predict_flow with a multiclass answer of BENIGN overruling the gate: line
\* 371 replaced by is_attack = (ml_type != "BENIGN").
PredictFlow_mlveto(binary_model, multiclass_model, feats, probs, answer, now) ==
    LET gate == BinaryGate(binary_model, probs)
    IN  IF ~NeedsTyping(gate)
        THEN [status |-> 200, calls |-> {},
              body |-> Event(feats, gate, gate.is_attack, DefaultTyping, "BENIGN", now)]
        ELSE LET rule == rule_based_classification(feats)
                 ml == classify_attack_type_ml(multiclass_model, answer)
             IN  IF Len(ml) # 3
                 THEN [status |-> 400, calls |-> {"rules", "multiclass"},
                       body |-> [detail |-> "not enough values to unpack"]]
                 ELSE [status |-> 200, calls |-> {"rules", "multiclass"},
                       body |-> Event(feats, gate, ml[1] # "BENIGN", Fusion(rule, ml),
                                      ml[1], now)]

\* predict_flow, lines 294-407: the answer to the request, and the classifiers
\* called on the way.  Unpacking a result of classify_attack_type_ml that has
\* not three items raises ValueError at line 354, which line 407 turns into
\* the answer 400.
PredictFlow(binary_model, multiclass_model, feats, probs, answer, now) ==
    LET gate == BinaryGate(binary_model, probs)
    IN  IF ~NeedsTyping(gate)
        THEN [status |-> 200, calls |-> {},
              body |-> Event(feats, gate, gate.is_attack, DefaultTyping, "BENIGN", now)]
        ELSE LET rule == rule_based_classification(feats)
                 ml == classify_attack_type_ml(multiclass_model, answer)
             IN  IF Len(ml) # 3
                 THEN [status |-> 400, calls |-> {"rules", "multiclass"},
                       body |-> [detail |-> "not enough values to unpack"]]
                 ELSE [status |-> 200, calls |-> {"rules", "multiclass"},
                       body |-> Event(feats, gate, TRUE, Fusion(rule, ml), ml[1], now)]

\* A full deque that drops its newest item to make room.
DequeAppend_dropnewest(d, x) ==
    IF Len(d) = EVENT_HISTORY_maxlen THEN SubSeq(d, 1, Len(d) - 1) \o <<x>> ELSE Append(d, x)

\* deque(maxlen=100).append, line 390.
DequeAppend(d, x) ==
    IF Len(d) = EVENT_HISTORY_maxlen THEN Tail(d) \o <<x>> ELSE Append(d, x)

\* POST /predict: predict_flow on the dict feats, with the two models answering
\* probs and answer.  datetime.now() is counted in requests.
Predict(feats, probs, answer) ==
    LET r == PredictFlow(BINARY_MODEL, MULTICLASS_MODEL, feats, probs, answer, served)
    IN  /\ request' = [features |-> feats, probs |-> probs, answer |-> answer]
        /\ response' = [op |-> "predict", status |-> r.status, body |-> r.body]
        /\ calls' = r.calls
        /\ served' = served + 1
        /\ EVENT_HISTORY' = IF r.status = 200 THEN DequeAppend(EVENT_HISTORY, r.body)
                            ELSE EVENT_HISTORY
        /\ recorded' = IF r.status = 200 THEN recorded + 1 ELSE recorded
        /\ UNCHANGED <<clock, tableVars, mainVars, sweepVars, keyVars, flowVars, ruleVars,
                       demoVars, BINARY_MODEL, MULTICLASS_MODEL>>

\* POST /clear: clear_events, lines 416-419.
Clear ==
    /\ EVENT_HISTORY' = <<>>
    /\ recorded' = 0
    /\ request' = <<>>
    /\ response' = [op |-> "clear", status |-> 200,
                    body |-> [status |-> "cleared", message |-> "Event history cleared"]]
    /\ calls' = {}
    /\ UNCHANGED <<clock, tableVars, mainVars, sweepVars, keyVars, flowVars, ruleVars,
                   demoVars, served, BINARY_MODEL, MULTICLASS_MODEL>>

\* The deque handed out newest event first.
get_events_reversed(d) == [i \in 1..Len(d) |-> d[Len(d) + 1 - i]]

\* get_events, line 412: list(EVENT_HISTORY), the deque from its left end to
\* its right end; line 390 appends at the right end.
get_events(d) == d

\* The dict get_stats builds in lines 430-437 for one key of the events: how
\* many of the events chosen by keep carry each value of the key.
Histogram(events, key, keep) ==
    [v \in {events[i][key] : i \in keep} |->
        Cardinality({i \in keep : events[i][key] = v})]

\* The statistics with the detection methods counted over the malicious
\* events only.
get_stats_maliciousonly(d) ==
    IF d = <<>> THEN [total |-> 0, attacks |-> 0, benign |-> 0]
    ELSE LET attacks == {i \in 1..Len(d) : d[i].is_malicious}
         IN  [total |-> Len(d),
              attacks |-> Cardinality(attacks),
              benign |-> Len(d) - Cardinality(attacks),
              attack_percentage |-> <<Cardinality(attacks) * 100, Len(d)>>,
              attack_types |-> Histogram(d, "attack_type", attacks),
              detection_methods |-> Histogram(d, "detection_method", attacks)]

\* get_stats, lines 423-446: everything is computed from the events the deque
\* holds at the time of the query.  The percentage is the exact quotient.
get_stats(d) ==
    IF d = <<>> THEN [total |-> 0, attacks |-> 0, benign |-> 0]
    ELSE LET attacks == {i \in 1..Len(d) : d[i].is_malicious}
         IN  [total |-> Len(d),
              attacks |-> Cardinality(attacks),
              benign |-> Len(d) - Cardinality(attacks),
              attack_percentage |-> <<Cardinality(attacks) * 100, Len(d)>>,
              attack_types |-> Histogram(d, "attack_type", attacks),
              detection_methods |-> Histogram(d, "detection_method", 1..Len(d))]

\* GET /events: get_events, lines 410-412.
GetEvents ==
    /\ request' = <<>>
    /\ response' = [op |-> "events", status |-> 200, body |-> get_events(EVENT_HISTORY)]
    /\ calls' = {}
    /\ UNCHANGED <<clock, tableVars, mainVars, sweepVars, keyVars, flowVars, ruleVars,
                   demoVars, EVENT_HISTORY, served, recorded, BINARY_MODEL, MULTICLASS_MODEL>>

\* GET /stats: get_stats, lines 422-446.
GetStats ==
    /\ request' = <<>>
    /\ response' = [op |-> "stats", status |-> 200, body |-> get_stats(EVENT_HISTORY)]
    /\ calls' = {}
    /\ UNCHANGED <<clock, tableVars, mainVars, sweepVars, keyVars, flowVars, ruleVars,
                   demoVars, EVENT_HISTORY, served, recorded, BINARY_MODEL, MULTICLASS_MODEL>>

\* -------------------------------------------------------------- SpecEngine
\* The IDS engine serving POST /predict and POST /clear.  Each of the two
\* models was loaded at import or is None; a request carries one of five
\* feature dicts, and the models answer it in one of a few ways.
Addresses == ("src_ip" :> "10.0.0.5") @@ ("dst_ip" :> "10.0.0.9")

\* All fields zero, Destination Port 443.
Zero443 == MakeDict(<<443, 0, 0, 0, 0, 0, 0, 0, 0, 0>>) @@ Addresses
\* SYN and RST within a millisecond: ("PortScan", 0.85).
SynRst == MakeDict(<<53, 1, 1, 0, 0, 2, 1, 0, 0, 1000>>) @@ Addresses
\* A symmetric DNS exchange: ("Unknown Attack", 0.50).
Quiet53 == MakeDict(<<53, 0, 0, 2, 0, 2, 2, 100, 100, 1000000>>) @@ Addresses
\* A large answer on port 443: ("Heartbleed", 0.65).
Bleed443 == MakeDict(<<443, 0, 0, 2, 0, 1, 1, 10, 60000, 1000000>>) @@ Addresses
\* One packet each way on port 80, no Flow Duration key.
NoDuration80 == MakeDict(<<80, 0, 0, 0, 0, 1, 1, 0, 0, Absent>>) @@ Addresses

EngineInputs == {Zero443, SynRst, Quiet53, Bleed443, NoDuration80}

\* <<attack_prob, benign_prob>> of the two-class model, in hundredths.
BinaryProbs == {<<20, 80>>, <<22, 78>>, <<60, 40>>}

MLAnswers ==
    { [raises |-> FALSE, type |-> "BENIGN", conf |-> 95],
      [raises |-> FALSE, type |-> "DDoS", conf |-> 92],
      [raises |-> FALSE, type |-> "PortScan", conf |-> 30],
      [raises |-> TRUE, type |-> "", conf |-> 0] }

EngineInit ==
    /\ clock = 0
    /\ TableInit
    /\ KeyIdle
    /\ FlowIdle
    /\ RulesIdle
    /\ DemoIdle
    /\ EVENT_HISTORY = <<>>
    /\ request = <<>>
    /\ response = <<>>
    /\ served = 0
    /\ recorded = 0
    /\ calls = {}
    /\ BINARY_MODEL \in {"loaded", "None"}
    /\ MULTICLASS_MODEL \in {"loaded", "None"}

EnginePredict ==
    /\ served < MaxServed
    /\ \E feats \in EngineInputs, probs \in BinaryProbs, answer \in MLAnswers :
          Predict(feats, probs, answer)

EngineNext == EnginePredict \/ Clear

SpecEngine == EngineInit /\ [][EngineNext]_vars

\* ------------------------------------------------ claims about SpecEngine
\* predict_flow has answered the last request.
Answered == response # <<>> /\ response.op = "predict"

\* It answered with a verdict.
Verdict == Answered /\ response.status = 200

\* The rule engine and the multiclass model were invoked for the last request.
Typed == calls # {}

\* What the two classifiers return for the last request.
RuleResult == rule_based_classification(request.features)
MLResult == classify_attack_type_ml(MULTICLASS_MODEL, request.answer)

\* The rule result takes precedence.
RuleWins == RuleResult[2] >= 70 /\ RuleResult[1] # "Unknown Attack"

\* C13: when the rule result has confidence >= 0.70 and a type other than
\* "Unknown Attack", the verdict carries the rule's type and confidence with
\* method "rules", whatever the multiclass result is.
C13_RulesFirst ==
    (Verdict /\ Typed /\ RuleWins)
        => /\ response.body.attack_type = RuleResult[1]
           /\ response.body.confidence = RuleResult[2]
           /\ response.body.detection_method = "rules"

\* C13 witness: rule ("PortScan", 0.85) against multiclass ("DDoS", 0.92): the
\* verdict is PortScan by the rules.
C13_Witness ==
    /\ Verdict /\ Typed
    /\ RuleResult = <<"PortScan", 85>>
    /\ MLResult[1] = "DDoS" /\ MLResult[2] = 92
    /\ response.body.attack_type = "PortScan"
    /\ response.body.detection_method = "rules"

\* C14: when the rule result does not take precedence, the verdict is the
\* multiclass result with method "ml-multiclass" exactly when the multiclass
\* type is not "BENIGN" and its confidence exceeds 0.30, and otherwise the rule
\* result, whatever its confidence, with method "rules".
C14_MulticlassNext ==
    (Verdict /\ Typed /\ ~RuleWins)
        => LET useml == MLResult[1] # "BENIGN" /\ MLResult[2] > 30
           IN  /\ response.body.detection_method = "ml-multiclass" <=> useml
               /\ useml => /\ response.body.attack_type = MLResult[1]
                           /\ response.body.confidence = MLResult[2]
               /\ ~useml => /\ response.body.attack_type = RuleResult[1]
                            /\ response.body.confidence = RuleResult[2]
                            /\ response.body.detection_method = "rules"

\* C14 witness: rule ("Unknown Attack", 0.50) and multiclass ("PortScan", 0.30):
\* the multiclass confidence does not exceed 0.30, the verdict is the rule's.
C14_Witness ==
    /\ Verdict /\ Typed
    /\ RuleResult = <<"Unknown Attack", 50>>
    /\ MLResult[1] = "PortScan" /\ MLResult[2] = 30
    /\ response.body.attack_type = "Unknown Attack"
    /\ response.body.detection_method = "rules"

\* The request carried the all-zero dict with Destination Port 443 and the
\* binary model is loaded.
ZeroRequest == Answered /\ request.features = Zero443 /\ BINARY_MODEL = "loaded"

Verdicts ==
    {EVENT_HISTORY[i] : i \in DOMAIN EVENT_HISTORY}
        \cup (IF Verdict THEN {response.body} ELSE {})

\* C16 as claimed: every verdict's detection_method is rules, ml-multiclass or
\* ml-binary-only.
C16_AsClaimed ==
    \A e \in Verdicts : e.detection_method \in {"rules", "ml-multiclass", "ml-binary-only"}

\* C16 amended: every verdict's detection_method is ml, rules or ml-multiclass,
\* and it is ml exactly in the BENIGN verdicts.
C16_Methods ==
    \A e \in Verdicts :
        /\ e.detection_method \in {"ml", "rules", "ml-multiclass"}
        /\ e.detection_method = "ml" <=> e.label = "BENIGN"

\* C16 witness: a BENIGN verdict with method ml and an ATTACK verdict are
\* recorded.
C16_Witness ==
    /\ \E e \in Verdicts : e.label = "BENIGN" /\ e.detection_method = "ml"
    /\ \E e \in Verdicts : e.label = "ATTACK" /\ e.detection_method = "ml-multiclass"

\* C17: the label is ATTACK or BENIGN; attack_type is "BENIGN" exactly when
\* the label is BENIGN and is_malicious is false; an ATTACK verdict carries
\* the type of the source its method names, never "BENIGN".
C17_Labels ==
    /\ \A e \in Verdicts :
          /\ e.label \in {"ATTACK", "BENIGN"}
          /\ e.attack_type = "BENIGN" <=> e.label = "BENIGN"
          /\ e.is_malicious <=> e.label = "ATTACK"
    /\ (Verdict /\ response.body.label = "ATTACK")
          => response.body.attack_type =
                IF response.body.detection_method = "rules" THEN RuleResult[1]
                ELSE MLResult[1]

\* C17 witness: the multiclass model said BENIGN for a flow the gate flagged;
\* the verdict is ATTACK with the rule's type.
C17_Witness ==
    /\ Verdict /\ Typed
    /\ MLResult[1] = "BENIGN"
    /\ response.body.label = "ATTACK"
    /\ response.body.attack_type = RuleResult[1]
    /\ RuleResult[2] < 70

\* C18 as claimed: every request gets a verdict, the verdict is recorded, and
\* when the multiclass model is not loaded or raises, the multiclass type of
\* the verdict is the default "Unknown".
C18_AsClaimed ==
    Answered =>
        /\ response.status = 200
        /\ EVENT_HISTORY # <<>> /\ EVENT_HISTORY[Len(EVENT_HISTORY)] = response.body
        /\ (Typed /\ (MULTICLASS_MODEL = "None" \/ request.answer.raises))
              => response.body.ml_attack_type = "Unknown"

\* The fields the binary gate and the rule engine look up.
ExpectedFields ==
    {RuleFields[i] : i \in DOMAIN RuleFields}
        \cup {"FIN Flag Count", "Fwd Packets/s", "Init_Win_bytes_backward"}
        \cup {BINARY_FEATURE_NAMES[i] : i \in DOMAIN BINARY_FEATURE_NAMES}

\* The dict with every absent expected field present and equal to 0.
WithZeros(feats) ==
    [k \in DOMAIN feats \cup ExpectedFields |-> IF k \in DOMAIN feats THEN feats[k] ELSE 0]

\* C19 as claimed: the binary gate builds the same vector, and predict_flow
\* gives the same answer, for a dict and for the dict with its absent fields
\* set to 0.
C19_AsClaimed ==
    Answered =>
        /\ FeatureVector(request.features) = FeatureVector(WithZeros(request.features))
        /\ [status |-> response.status, body |-> response.body]
              = LET r == PredictFlow(BINARY_MODEL, MULTICLASS_MODEL,
                                     WithZeros(request.features), request.probs,
                                     request.answer, served - 1)
                IN  [status |-> r.status, body |-> r.body]

\* ---------------------------------------------------------------- SpecRing
\* The event buffer under a long run of requests.  Both models are loaded and
\* the requests repeat a cycle of three, so that every request is answered
\* with a verdict and the buffer fills beyond its capacity; POST /clear may
\* come at any time, and so may GET /events and GET /stats.  The timestamps
\* tell the events apart.
RingRequests ==
    << [features |-> Zero443, probs |-> <<20, 80>>,
        answer |-> [raises |-> FALSE, type |-> "BENIGN", conf |-> 95]],
       [features |-> SynRst, probs |-> <<60, 40>>,
        answer |-> [raises |-> FALSE, type |-> "DDoS", conf |-> 92]],
       [features |-> Quiet53, probs |-> <<22, 78>>,
        answer |-> [raises |-> TRUE, type |-> "", conf |-> 0]] >>

RingInit ==
    /\ clock = 0
    /\ TableInit
    /\ KeyIdle
    /\ FlowIdle
    /\ EngineIdle

RingPredict ==
    /\ served < MaxRing
    /\ LET r == RingRequests[(served % Len(RingRequests)) + 1]
       IN  Predict(r.features, r.probs, r.answer)

RingNext == RingPredict \/ Clear \/ GetEvents \/ GetStats

SpecRing == RingInit /\ [][RingNext]_vars

\* C20: the buffer never holds more than 100 events, and a request appends
\* its event at the end, dropping the oldest event, and no other, when the
\* buffer was full.
C20_Ring ==
    /\ [](Len(EVENT_HISTORY) <= EVENT_HISTORY_maxlen)
    /\ [][served' = served + 1 =>
            EVENT_HISTORY' = (IF Len(EVENT_HISTORY) = EVENT_HISTORY_maxlen
                              THEN SubSeq(EVENT_HISTORY, 2, Len(EVENT_HISTORY))
                              ELSE EVENT_HISTORY) \o <<response'.body>>]_vars

\* C20 witness: the buffer is full and its oldest events are gone.
C20_Witness ==
    /\ Len(EVENT_HISTORY) = EVENT_HISTORY_maxlen
    /\ EVENT_HISTORY[1].timestamp > 0
    /\ EVENT_HISTORY[EVENT_HISTORY_maxlen].timestamp = served - 1

\* The sum of the counts of a histogram.
HistogramSum(h) ==
    LET RECURSIVE Sum(_)
        Sum(D) == IF D = {} THEN 0
                  ELSE LET k == CHOOSE k \in D : TRUE IN h[k] + Sum(D \ {k})
    IN  Sum(DOMAIN h)

EventsAnswered == response # <<>> /\ response.op = "events"
StatsAnswered == response # <<>> /\ response.op = "stats"

\* C21 as the specification states it: GET /events answers the buffered
\* events most recent first: the event recorded last (the greatest timestamp)
\* is the first element and the oldest retained event is the last.
C21_AsClaimed ==
    (EventsAnswered /\ response.body # <<>>) =>
        LET b == response.body
        IN  /\ \A i \in 1..Len(b) : b[1].timestamp >= b[i].timestamp
            /\ \A i \in 1..Len(b) : b[Len(b)].timestamp <= b[i].timestamp

\* C21 as the code has it: GET /events answers the buffered events oldest
\* first: the timestamps increase along the response, so the event recorded
\* last is its last element and the oldest retained event its first.
C21_OldestFirst ==
    EventsAnswered =>
        LET b == response.body
        IN  /\ Len(b) = Len(EVENT_HISTORY)
            /\ \A i, j \in 1..Len(b) : i < j => b[i].timestamp < b[j].timestamp
            /\ b # <<>> => b[Len(b)].timestamp = served - 1

\* GET /events answered from a buffer that has wrapped around.
C21_Witness ==
    /\ EventsAnswered
    /\ Len(response.body) = EVENT_HISTORY_maxlen
    /\ recorded > EVENT_HISTORY_maxlen

\* What C22 says of the sums of one answer of GET /stats.
StatsSums(b) ==
    /\ b.attacks + b.benign = b.total
    /\ b.total > 0 => /\ HistogramSum(b.attack_types) = b.attacks
                      /\ HistogramSum(b.detection_methods) = b.total

\* C22 as the specification states it: GET /stats reports running aggregates:
\* after N recorded predictions and no reset since, total is N, also when N
\* exceeds the capacity of the buffer, attacks + benign is total, the attack
\* types sum to attacks and the detection methods sum to total.
C22_AsClaimed ==
    StatsAnswered => response.body.total = recorded /\ StatsSums(response.body)

\* C22 as the code has it: GET /stats reports aggregates over the events the
\* buffer holds: total is N up to the capacity of the buffer and the capacity
\* beyond it; attacks + benign is total, the attack types sum to attacks and
\* the detection methods sum to total.
C22_Buffered ==
    StatsAnswered =>
        /\ response.body.total = IF recorded <= EVENT_HISTORY_maxlen THEN recorded
                                 ELSE EVENT_HISTORY_maxlen
        /\ StatsSums(response.body)

\* GET /stats answered after more predictions than the buffer holds, attacks
\* and benign flows among them.
C22_Witness ==
    /\ StatsAnswered
    /\ recorded > EVENT_HISTORY_maxlen
    /\ response.body.attacks > 0
    /\ response.body.benign > 0

\* ---------------------------------------------------------------- SpecDemo
\* The Flask application ids_demo/app.py.  app.run (line 719) serves every
\* request in a thread of its own, and no handler takes a lock, so the
\* statements of two handlers interleave.  A request thread is at one of the
\* four counters api_predict updates (at), about to load the counter or to
\* store it (phase): "STATS[k] += 1" loads the dict STATS is bound to and the
\* value under k, adds one and stores the sum into the dict it loaded.  The
\* fields ts, src_ip, dst_ip, prob and severity of an event, which no counter
\* depends on, are left out.
EVENTS_maxlen == 500
DEFAULT_LIMIT == 50

\* deque.appendleft with maxlen: the rightmost element makes room.
AppendLeft(d, x) ==
    IF Len(d) = EVENTS_maxlen THEN <<x>> \o SubSeq(d, 1, Len(d) - 1) ELSE <<x>> \o d

\* The counters of lines 375-385 in their order, for a label and a true label.
CounterValue(S, at, label, true_label) ==
    CASE at = 1 -> S.total
      [] at = 2 -> IF label # "BENIGN" THEN S.attacks ELSE S.benign
      [] at = 3 -> S.by_type[label]
      [] at = 4 -> S.online_cm[<<label, Val(true_label)>>]

CounterSet(S, at, label, true_label, v) ==
    CASE at = 1 -> [S EXCEPT !.total = v]
      [] at = 2 -> IF label # "BENIGN" THEN [S EXCEPT !.attacks = v]
                   ELSE [S EXCEPT !.benign = v]
      [] at = 3 -> [S EXCEPT !.by_type[label] = v]
      [] at = 4 -> [S EXCEPT !.online_cm[<<label, Val(true_label)>>] = v]

Begun == workers[1].begun + workers[2].begun
Done == workers[1].done + workers[2].done

\* api_predict, lines 319-372 and 389-390: the model answers label, or the
\* request raises and is answered 400 with nothing stored; line 372 puts the
\* event at the left end of EVENTS.
ApiPredict(w) ==
    /\ workers[w].at = 0
    /\ Begun < MaxCalls
    /\ \E label \in Labels, true_label \in TrueLabels, raises \in BOOLEAN :
          IF raises
          THEN /\ workers' = [workers EXCEPT ![w].begun = @ + 1]
               /\ UNCHANGED EVENTS
          ELSE /\ EVENTS' = AppendLeft(EVENTS, [label |-> label,
                                                is_attack |-> label # "BENIGN",
                                                true_label |-> true_label])
               /\ workers' = [workers EXCEPT ![w] =
                                 [@ EXCEPT !.at = 1, !.phase = "load", !.label = label,
                                           !.true_label = true_label, !.begun = @ + 1]]
    /\ UNCHANGED <<clock, tableVars, mainVars, sweepVars, keyVars, flowVars, ruleVars,
                   serverVars, STATS, resetter, dresponse>>

\* A value that can be a member of a dict key: a string can, a list cannot.
Hashable(v) == v \in Labels

\* The first half of one of lines 375, 377, 379, 380, 385: the dict and the
\* value are loaded.  At line 385 the key (label, true_label) is hashed for
\* online_cm.get: with a true_label that is a list TypeError is raised and
\* lines 389-390 answer 400.
CounterLoad(w) ==
    /\ workers[w].at > 0
    /\ workers[w].phase = "load"
    /\ LET me == workers[w]
       IN  workers' = [workers EXCEPT ![w] =
                          IF me.at = 4 /\ ~Hashable(Val(me.true_label))
                          THEN [IdleWorker EXCEPT !.begun = me.begun, !.done = me.done]
                          ELSE [me EXCEPT !.phase = "store", !.ref = STATS.id,
                                          !.tmp = CounterValue(STATS, me.at, me.label,
                                                               me.true_label)]]
    /\ UNCHANGED <<clock, tableVars, mainVars, sweepVars, keyVars, flowVars, ruleVars,
                   serverVars, EVENTS, STATS, resetter, dresponse>>

\* The second half: the sum is stored into the dict that was loaded, which
\* nobody reads any more once api_reset has bound STATS to another.  After
\* line 380 a request without true_label returns (line 383), the others after
\* line 385.
CounterStore(w) ==
    LET me == workers[w]
        last == me.at = 4 \/ (me.at = 3 /\ IsNone(me.true_label))
    IN  /\ me.at > 0
        /\ me.phase = "store"
        /\ STATS' = IF me.ref = STATS.id
                    THEN CounterSet(STATS, me.at, me.label, me.true_label, me.tmp + 1)
                    ELSE STATS
        /\ workers' = [workers EXCEPT ![w] =
                          IF last
                          THEN [IdleWorker EXCEPT !.begun = me.begun, !.done = me.done + 1]
                          ELSE [me EXCEPT !.at = @ + 1, !.phase = "load", !.ref = 0,
                                          !.tmp = 0]]
        /\ UNCHANGED <<clock, tableVars, mainVars, sweepVars, keyVars, flowVars, ruleVars,
                       serverVars, EVENTS, resetter, dresponse>>

\* api_reset, lines 599-606: STATS is bound to a new dict.
ApiResetStats ==
    /\ resetter.pc = "idle"
    /\ resetter.resets < MaxResets
    /\ STATS' = NewStats(STATS.id + 1)
    /\ resetter' = [pc |-> "clear", resets |-> resetter.resets + 1]
    /\ UNCHANGED <<clock, tableVars, mainVars, sweepVars, keyVars, flowVars, ruleVars,
                   serverVars, EVENTS, workers, dresponse>>

\* api_reset, lines 607-608: EVENTS.clear() and the answer.
ApiResetEvents ==
    /\ resetter.pc = "clear"
    /\ EVENTS' = <<>>
    /\ resetter' = [resetter EXCEPT !.pc = "idle"]
    /\ UNCHANGED <<clock, tableVars, mainVars, sweepVars, keyVars, flowVars, ruleVars,
                   serverVars, STATS, workers, dresponse>>

\* api_events, lines 393-397: the first limit events.
ApiEvents ==
    /\ \E limit \in {1, DEFAULT_LIMIT} :
          dresponse' = [op |-> "events",
                        body |-> SubSeq(EVENTS, 1, IF limit < Len(EVENTS) THEN limit
                                                   ELSE Len(EVENTS))]
    /\ UNCHANGED <<clock, tableVars, mainVars, sweepVars, keyVars, flowVars, ruleVars,
                   serverVars, EVENTS, STATS, workers, resetter>>

\* round(n / d, 4), in ten-thousandths.
Round4(n, d) == (2 * 10000 * n + d) \div (2 * d)

\* api_stats, lines 403-434.  A key is in by_type and online_cm once it has
\* been stored.
api_stats(S) ==
    LET cm == {k \in DOMAIN S.online_cm : S.online_cm[k] > 0}
        correct == SumSeq([i \in 1..2 |->
                              LET l == IF i = 1 THEN "BENIGN" ELSE "DDoS"
                              IN  S.online_cm[<<l, l>>]])
        fn(t) == SumSeq([i \in 1..2 |->
                              LET l == IF i = 1 THEN "BENIGN" ELSE "DDoS"
                              IN  IF l # t THEN S.online_cm[<<l, t>>] ELSE 0])
        tp(t) == S.online_cm[<<t, t>>]
    IN  [total |-> S.total,
         benign |-> S.benign,
         attacks |-> S.attacks,
         by_type |-> [l \in {l \in Labels : S.by_type[l] > 0} |-> S.by_type[l]],
         online_cm |-> [k \in cm |-> S.online_cm[k]],
         accuracy |-> IF S.total > 0 /\ cm # {} THEN <<Round4(correct, S.total)>> ELSE <<>>,
         recall_by_type |-> [t \in {t \in Labels : tp(t) + fn(t) > 0} |->
                                Round4(tp(t), tp(t) + fn(t))]]

ApiStats ==
    /\ dresponse' = [op |-> "stats", body |-> api_stats(STATS)]
    /\ UNCHANGED <<clock, tableVars, mainVars, sweepVars, keyVars, flowVars, ruleVars,
                   serverVars, EVENTS, STATS, workers, resetter>>

DemoInit ==
    /\ clock = 0
    /\ TableInit
    /\ KeyIdle
    /\ FlowIdle
    /\ EngineIdle

DemoNext ==
    \/ \E w \in Workers : ApiPredict(w)
    \/ \E w \in Workers : CounterLoad(w)
    \/ \E w \in Workers : CounterStore(w)
    \/ ApiResetStats
    \/ ApiResetEvents
    \/ ApiEvents
    \/ ApiStats

SpecDemo == DemoInit /\ [][DemoNext]_vars

\* No request is being served.
Quiescent == resetter.pc = "idle" /\ \A w \in Workers : workers[w].at = 0

\* The events query and the stats query agree.
Agree ==
    /\ STATS.total = Len(EVENTS)
    /\ STATS.attacks = Cardinality({i \in 1..Len(EVENTS) : EVENTS[i].is_attack})
    /\ STATS.benign = Cardinality({i \in 1..Len(EVENTS) : ~EVENTS[i].is_attack})

\* C23 as the specification states it: the reset empties the buffer and zeroes
\* the counters as one atomic step: once a reset has completed, also one that
\* ran concurrently with a prediction, the events and the counters agree.
\* Only the first request thread has served predictions, so that no two
\* predictions ran concurrently.
C23_AsClaimed == (Quiescent /\ resetter.resets > 0 /\ workers[2].begun = 0) => Agree

\* C24 as the specification states it: the writers of the Event Sink exclude
\* each other and the readers: with no reset and no request answered with an
\* error, after N successful predictions total is N, and no answer to a query
\* is given while an event that has been appended is not yet counted.
C24_AsClaimed ==
    /\ []((Quiescent /\ resetter.resets = 0 /\ Begun = Done) => STATS.total = Done)
    /\ [][(resetter.resets = 0 /\ dresponse' # dresponse) => Len(EVENTS) <= STATS.total]_vars

\* The packets of record r when send_flow_to_api tested them at line 255, or,
\* for a record that never came that far, the packets it holds.
PacketsAtSend(r) ==
    IF hist[r].checked >= 0 THEN hist[r].checked
    ELSE heap[r].fwd_packets + heap[r].bwd_packets

\* C25 as the specification states it: when the handling of KeyboardInterrupt
\* has completed, main returning and the process ending, the table is empty
\* and every record that was in the table when the interrupt came and holds
\* at least MIN_PACKETS packets has been emitted exactly once.
C25_AsClaimed ==
    hpc = "exit" =>
        /\ Keys(active_flows) = {}
        /\ \A r \in Records :
              (hist[r].left /\ PacketsAtSend(r) >= MIN_PACKETS) => hist[r].extracted = 1

\* C27 as the specification states it: the insert-or-update of a packet is
\* safe against a concurrent removal: once packet_handler has found or put the
\* key in the table (lines 325-326), the key is there when line 330 looks it
\* up, and the lookup never fails.
C27_AsClaimed ==
    /\ hpc = "lookup" => KeyOf(hpkt[1]) \in Keys(active_flows)
    /\ hpc # "fatal"

\* ---------------------------------------------------------------- SpecLive
\* The extractor with the sweeper scheduled fairly.  The clock of the model
\* stops at MaxTime; the sleep of the sweeper still ends then (TickLate), and
\* time passes as long as the clock can count it.  At most MaxLivePkts packets
\* arrive, at any time or never, and the capture is not interrupted: after
\* Ctrl+C the process ends and with it the table.
TickLate ==
    /\ Alive
    /\ clock = MaxTime
    /\ wake > 0
    /\ wake' = wake - 1
    /\ UNCHANGED <<clock, tableVars, mainVars, spc, expired, sflow, keyVars, engineVars,
                   flowVars>>

\* packet_handler called for one of the MaxLivePkts packets.
LiveReceiveNew == PACKET_COUNT < MaxLivePkts /\ ReceiveNew
LiveReceiveKnown == PACKET_COUNT < MaxLivePkts /\ ReceiveKnown

LiveNext ==
    \/ Tick \/ TickLate
    \/ LiveReceiveNew \/ LiveReceiveKnown
    \/ Lookup \/ LookupKeyError
    \/ AddTouch \/ AddPacket
    \/ NoEarlyEmit \/ EarlyPop \/ EarlySend
    \/ Scan \/ SweepPop \/ SweepSend \/ SweepSleep

SpecLive ==
    /\ Init
    /\ [][LiveNext]_vars
    /\ WF_vars(Tick)
    /\ WF_vars(TickLate)
    /\ WF_vars(Scan)
    /\ WF_vars(SweepPop)
    /\ WF_vars(SweepSend)
    /\ WF_vars(SweepSleep)

\* Record r is in the table and, receiving no further packet, times out
\* before the clock of the model stops.
Quiet(r) ==
    /\ r \in Records
    /\ InTable(r)
    /\ heap[r].last_seen + FLOW_TIMEOUT < MaxTime

\* C28: with the sweeper scheduled fairly, a record in the table that stops
\* receiving packets is eventually removed from the table, as long as the
\* process runs: none stays forever.
C28_Removed ==
    \A r \in 1..MaxLivePkts : Quiet(r) ~> (~Quiet(r) \/ ~Alive)

\* The sweeper has removed a timed-out record that no packet touched again.
C28_Witness ==
    \E r \in Records :
        /\ hist[r].by = "sweeper"
        /\ ~hist[r].fresh
        /\ ~InTable(r)
        /\ Alive

\* C29: for each packet after the first of a record, add_packet appends the
\* flow-wide inter-arrival time to flow_iat; if it exceeds 1,000,000
\* microseconds it appends (this packet's time - current_active_start) to
\* active_times and the IAT to idle_times and restarts the active segment at
\* this packet's time; otherwise neither list changes and the start of the
\* open active segment stays.
C29_Segmentation ==
    [][(flow # <<>> /\ Len(ptimes') = Len(ptimes) + 1) =>
          LET f == flow[1]
              g == flow'[1]
              t == ptimes'[Len(ptimes')]
              iat == (t - ptimes[Len(ptimes)]) * USEC
          IN  /\ g.flow_iat = Append(f.flow_iat, iat)
              /\ IF iat > IDLE_THRESHOLD
                 THEN /\ g.active_times =
                            Append(f.active_times, (t - Val(f.current_active_start)) * USEC)
                      /\ g.idle_times = Append(f.idle_times, iat)
                      /\ g.current_active_start = Some(t)
                 ELSE /\ g.active_times = f.active_times
                      /\ g.idle_times = f.idle_times
                      /\ g.current_active_start = f.current_active_start]_vars

\* A record that met a gap above the threshold, a gap of exactly the threshold
\* and none other: packets at the times 0, 2 and 3.
C29_Witness ==
    /\ flow # <<>>
    /\ ptimes = <<0, 2, 3>>
    /\ flow[1].idle_times = <<2 * USEC>>
    /\ flow[1].flow_iat = <<2 * USEC, USEC>>

\* The forward endpoint a record stores, and the source endpoint of a packet.
ForwardEndpoint(f) == <<f.src_ip, f.src_port>>
SourceEndpoint(packet) == <<packet.src_ip, packet.src_port>>

\* C30: a packet counts as forward exactly when its (source address, source
\* port) is the forward endpoint the record stores; that endpoint is the
\* source endpoint of the packet the record was created for, and it never
\* changes while the record lives.
C30_Direction ==
    [][/\ \A r \in DOMAIN heap :
             heap'[r] # Freed => ForwardEndpoint(heap'[r]) = ForwardEndpoint(heap[r])
       /\ Len(heap') > Len(heap) =>
             ForwardEndpoint(heap'[Len(heap')]) = SourceEndpoint(hpkt'[1])
       /\ (hpc = "add" /\ hpc' = "check") =>
             LET f == heap[hflow]
                 g == heap'[hflow]
             IN  IF SourceEndpoint(hpkt[1]) = ForwardEndpoint(f)
                 THEN g.fwd_packets = f.fwd_packets + 1 /\ g.bwd_packets = f.bwd_packets
                 ELSE g.bwd_packets = f.bwd_packets + 1 /\ g.fwd_packets = f.fwd_packets]_vars

\* A record created for a packet from 2:80 that has counted one packet each
\* way: the packet from 1:5000 is its backward packet.
C30_Witness ==
    \E r \in Records :
        /\ ForwardEndpoint(heap[r]) = <<2, 80>>
        /\ heap[r].fwd_packets = 1
        /\ heap[r].bwd_packets = 1

\* ------------------------------------------------- predict_flow, step 2 gate

\* The binary model's probabilities send the last request to the rule engine
\* and the multiclass model.  Without a binary model there are no
\* probabilities and nothing is flagged.
Flagged ==
    /\ BINARY_MODEL = "loaded"
    /\ \/ request.probs[1] > 25
       \/ request.probs[2] < 80
       \/ request.probs[1] > 20

\* C31: the rule engine and the multiclass model are invoked exactly when the
\* binary gate flagged the flow (attack_prob > 0.25 or benign_prob < 0.80) or
\* attack_prob > 0.20; every other flow is finalized as BENIGN, with
\* confidence max(attack_prob, benign_prob).
C31_TypingGate ==
    Answered =>
        /\ Typed <=> Flagged
        /\ ~Flagged =>
              /\ response.status = 200
              /\ response.body.label = "BENIGN"
              /\ response.body.attack_type = "BENIGN"
              /\ BINARY_MODEL = "loaded" =>
                    response.body.confidence = PyMax(request.probs[1], request.probs[2])

\* C31 witness: a SYN/RST flow with attack_prob 0.20 and benign_prob 0.80 was
\* finalized as BENIGN with confidence 0.80 and no classifier was invoked.
C31_Witness ==
    /\ Answered
    /\ BINARY_MODEL = "loaded"
    /\ request.features = SynRst
    /\ request.probs = <<20, 80>>
    /\ ~Typed
    /\ response.body.label = "BENIGN"
    /\ response.body.confidence = 80

\* ------------------------------------------------- rule engine, reachability

\* The first documented check that matches the dict decides with the result r.
FirstMatchReturns(feats, r) ==
    LET checks == DocumentedChecks(RuleLocals(feats))
        hits == Matching(checks)
    IN  /\ hits # {}
        /\ checks[Least(hits)][2] = r
        /\ rule_based_classification(feats) = r

\* The "DoS GoldenEye" check, line 186, matches the dict.
GoldenEyeMatches(feats) ==
    LET v == RuleLocals(feats)
    IN  v.dst_port = 80 /\ v.psh_count >= 5 /\ v.fwd_packets >= 10

\* C32 as claimed, for the check the claim names: the "DoS GoldenEye" check
\* (port 80, PSH >= 5, forward packets >= 10) is not shadowed by the checks
\* before it.  When it matches the classified vector, there is a feature
\* vector for which it is the first check to match and ("DoS GoldenEye", 0.75)
\* is returned.
C32_AsClaimed ==
    (rresult # <<>> /\ GoldenEyeMatches(rfeatures))
        => \E choice \in RuleChoices :
              FirstMatchReturns(MakeDict(choice), <<"DoS GoldenEye", 75>>)

\* ------------------------------------------------- initial TCP window sizes

\* The packets a record has counted from one endpoint, in order: a packet of
\* FlowPackets is known by its source endpoint and its length.
PacketsFrom(endpoint, lengths) ==
    [i \in DOMAIN lengths |->
        CHOOSE p \in FlowPackets : SourceEndpoint(p) = endpoint /\ p.len = lengths[i]]

\* The window of the first TCP packet of a sequence, -1 when it has none.
FirstTcpWindow(pkts) ==
    LET tcp == {i \in DOMAIN pkts : pkts[i].proto = "TCP"}
    IN  IF tcp = {} THEN -1 ELSE pkts[Least(tcp)].window

\* C33: for each direction the recorded initial TCP window is the window of
\* the first TCP packet seen in that direction, and once set no later packet
\* of either direction changes it.
C33_InitialWindow ==
    /\ [](flow # <<>> =>
            LET f == flow[1]
            IN  /\ f.init_win_fwd =
                      FirstTcpWindow(PacketsFrom(<<f.src_ip, f.src_port>>, f.fwd_pkt_lengths))
                /\ f.init_win_bwd =
                      FirstTcpWindow(PacketsFrom(<<f.dst_ip, f.dst_port>>, f.bwd_pkt_lengths)))
    /\ [][(flow # <<>> /\ flow' # <<>>) =>
            /\ flow[1].init_win_fwd # -1 => flow'[1].init_win_fwd = flow[1].init_win_fwd
            /\ flow[1].init_win_bwd # -1 => flow'[1].init_win_bwd = flow[1].init_win_bwd]_vars

\* C33 witness: a zero-window segment from 1:5000, the answer from 2:80 with
\* window 8192, then a segment from 1:5000 with window 1024: the forward
\* window is still 0.
C33_Witness ==
    /\ flow # <<>>
    /\ flow[1].src_ip = 1
    /\ flow[1].fwd_pkt_lengths = <<40, 60>>
    /\ flow[1].bwd_pkt_lengths = <<60>>
    /\ flow[1].init_win_fwd = 0
    /\ flow[1].init_win_bwd = 8192

\* ------------------------------------------------- counters and sequences

\* C34: after any sequence of add_packet calls the record's counters agree
\* with its sequences: fwd_packets + bwd_packets is the length of the overall
\* packet-length sequence, each direction's packet and byte counters are the
\* length and the sum of that direction's length sequence, and the flow-wide
\* IAT sequence has (total packets - 1) entries.
C34_CountersAgree ==
    flow # <<>> =>
        LET f == flow[1]
            total == f.fwd_packets + f.bwd_packets
        IN  /\ total = Len(ptimes)
            /\ total = Len(f.all_pkt_lengths)
            /\ f.fwd_packets = Len(f.fwd_pkt_lengths)
            /\ f.fwd_bytes = SumSeq(f.fwd_pkt_lengths)
            /\ f.bwd_packets = Len(f.bwd_pkt_lengths)
            /\ f.bwd_bytes = SumSeq(f.bwd_pkt_lengths)
            /\ Len(f.flow_iat) = total - 1

\* C34 witness: two forward packets of 60 and 40 bytes and one backward packet
\* of 40 bytes: 100 forward bytes, two inter-arrival times.
C34_Witness ==
    /\ flow # <<>>
    /\ flow[1].fwd_pkt_lengths = <<60, 40>>
    /\ flow[1].bwd_pkt_lengths = <<40>>
    /\ flow[1].fwd_bytes = 100
    /\ flow[1].bwd_bytes = 40
    /\ Len(flow[1].flow_iat) = 2

\* ------------------------------------------------- active and idle lists

\* The gaps between consecutive packet times that exceed the idle threshold.
LongGaps(times) ==
    {i \in 2..Len(times) : (times[i] - times[i - 1]) * USEC > 1000000}

\* C35: after any sequence of add_packet calls the active-duration list and
\* the idle-duration list have the same length, the number of flow-wide
\* inter-arrival times above the idle threshold; an active segment is open
\* from the first packet on, so line 105 never finds current_active_start
\* None and line 106 is never executed.
C35_ActiveIdlePaired ==
    flow # <<>> =>
        LET f == flow[1]
        IN  /\ Len(f.active_times) = Len(f.idle_times)
            /\ Len(f.idle_times) = Cardinality(LongGaps(ptimes))
            /\ Len(f.idle_times) =
                  Cardinality({i \in DOMAIN f.flow_iat : f.flow_iat[i] > 1000000})
            /\ ~IsNone(f.current_active_start)

\* C35 witness: packets at the times 0, 3 and 3: one gap above the threshold,
\* one active and one idle duration.
C35_Witness ==
    /\ flow # <<>>
    /\ ptimes = <<0, 3, 3>>
    /\ Len(flow[1].active_times) = 1
    /\ Len(flow[1].idle_times) = 1
    /\ Len(flow[1].flow_iat) = 2

\* ------------------------------------------------- predict_flow, line 371

\* C36: every flow for which the fusion step runs is finalized as ATTACK: a
\* verdict returned after the rule engine and the multiclass model were
\* invoked is never BENIGN, and with the multiclass result "BENIGN" and the
\* rule result ("Unknown Attack", 0.50) it is ATTACK with attack_type
\* "Unknown Attack", confidence 0.50 and method "rules".
C36_FusionIsAttack ==
    (Verdict /\ Typed) =>
        /\ response.body.label = "ATTACK"
        /\ response.body.is_malicious
        /\ response.body.attack_type # "BENIGN"
        /\ (MLResult[1] = "BENIGN" /\ RuleResult = <<"Unknown Attack", 50>>)
              => /\ response.body.attack_type = "Unknown Attack"
                 /\ response.body.confidence = 50
                 /\ response.body.detection_method = "rules"

\* C36 witness: the rule engine knew no pattern, the multiclass model said
\* BENIGN with 0.95, and the verdict is ATTACK, "Unknown Attack", by the rules.
C36_Witness ==
    /\ Verdict /\ Typed
    /\ RuleResult = <<"Unknown Attack", 50>>
    /\ MLResult[1] = "BENIGN" /\ MLResult[2] = 95
    /\ response.body.label = "ATTACK"
    /\ response.body.confidence = 50
    /\ response.body.detection_method = "rules"

\* ------------------------------------------------- closure and re-creation

\* packet_handler is at line 330 for a packet whose key it did not find at
\* line 325: the youngest record was stored for this packet and no handler
\* has returned for it yet.
CreatedForPacket ==
    /\ hpc = "lookup"
    /\ hist # <<>>
    /\ hist[Len(hist)].key = KeyOf(hpkt[1])
    /\ hist[Len(hist)].ret = "none"

\* The key was closed before the youngest record was stored: an older record
\* stored under it was popped.
ClosedBefore(key) ==
    \E r \in 1..(Len(hist) - 1) : hist[r].key = key /\ hist[r].popped > 0

\* C37 as claimed: right after a pop that closes a record its key is absent
\* from the table; the next packet on the key stores a fresh record, all
\* counters zero and the packet's source as forward endpoint, leaving older
\* records as they are; and packet_handler adds the packet to that record,
\* which then counts one packet, forward.
C37_AsClaimed ==
    [][/\ \A r \in DOMAIN hist :
             hist'[r].popped > hist[r].popped => hist[r].key \notin Keys(active_flows')
       /\ Len(heap') > Len(heap) =>
             LET packet == hpkt'[1]
                 g == heap'[Len(heap')]
             IN  /\ KeyOf(packet) \notin Keys(active_flows)
                 /\ active_flows'[KeyOf(packet)] = Len(heap')
                 /\ g = CICFlow(packet.src_ip, packet.dst_ip, packet.src_port,
                                packet.dst_port, packet.proto, clock, clock)
                 /\ g.fwd_packets + g.bwd_packets = 0
                 /\ ForwardEndpoint(g) = SourceEndpoint(packet)
                 /\ \A r \in DOMAIN heap : heap'[r] = heap[r]
       /\ (CreatedForPacket /\ ClosedBefore(KeyOf(hpkt[1])) /\ hpc' \in {"touch", "fatal"}) =>
             /\ hpc' = "touch"
             /\ hflow' = Len(heap)
       /\ (hpc = "add" /\ hpc' = "check" /\ hflow = Len(heap)
             /\ heap[hflow].fwd_packets + heap[hflow].bwd_packets = 0) =>
             /\ heap'[hflow].fwd_packets = 1
             /\ heap'[hflow].bwd_packets = 0
             /\ heap'[hflow].all_pkt_lengths = <<hpkt[1].len>>
             /\ heap'[hflow].flow_iat = <<>>]_vars

\* ------------------------------------------------- error answers and the sink

\* C38 as claimed, for api_predict: a prediction request answered with an
\* error leaves EVENTS and STATS as they were.  With one request thread and no
\* reset, once every request has been answered the buffer and the counters
\* hold the requests that were answered with an event and nothing else.
C38_AsClaimed ==
    (Quiescent /\ resetter.resets = 0 /\ workers[2].begun = 0) =>
        /\ Len(EVENTS) = Done
        /\ STATS.total = Done
        /\ STATS.attacks + STATS.benign = Done
        /\ SumSeq([i \in 1..2 |-> STATS.by_type[IF i = 1 THEN "BENIGN" ELSE "DDoS"]]) = Done

====
